---- MODULE Spec2Model ----
(***************************************************************************)
(* HookFreight capture-and-delivery pipeline.                              *)
(*                                                                         *)
(* The model follows src/src/services/deliveries.service.ts: the BullMQ    *)
(* delivery queue (getDeliveryQueue), the job processor of the worker      *)
(* (getDeliveryWorker), attemptDelivery, recordDelivery, handleEvent and   *)
(* retryDelivery, together with the delivery ledger and its unique index   *)
(* (src/src/models/Delivery.ts) and the collaborators the worker reads:    *)
(* the endpoint registry and the event store.                              *)
(*                                                                         *)
(* A job processor is an async function; it is split at its awaits into    *)
(* the steps AttemptDelivery, RecordDelivery and UpdateData, so that jobs  *)
(* of concurrent workers interleave as they do in the program.             *)
(***************************************************************************)
EXTENDS Integers, Sequences, FiniteSets, TLC

\* ------------------------------------------------------------------------
\* Bounds of the model
\* ------------------------------------------------------------------------
\* HOOKFREIGHT_QUEUE_MAX_RETRIES as configured for the run (the option is
\* any positive integer, 5 when it is not set).
MaxRetries == 2

\* HOOKFREIGHT_QUEUE_CONCURRENCY as configured for the run.
Concurrency == 2

\* Number of events that are captured during a run.
NumEvents == 1

\* Number of manual retry requests that are accepted during a run.
MaxManualRetries == 1

\* Number of endpoint updates that are made during a run.
MaxEndpointUpdates == 1

\* Number of attempts that workers start during a run, over all jobs.
MaxAttempts == 3

\* Repeated handleEvent calls for stored events.
MaxResubmits == 1

\* Ingest requests handled during a run.
MaxRequests == 2

\* HOOKFREIGHT_MAX_BODY_BYTES, scaled down.
MaxBodyBytes == 2

\* The clock: the attempts option of the job under the clock, the length of
\* a tick in ms, and the time the clock runs to.
TimerAttempts == 4
TickMs == 500
MaxTime == 8000

\* The store under app deletion: apps, endpoints and events, the number of
\* deleteApp calls, and the batch size (1000 in the source) scaled down.
MaxApps == 2
MaxDbEndpoints == 3
MaxDbEvents == 3
MaxDeletes == 2
DELETE_CHUNK_SIZE == 2

\* The store under listing: events, the endpoints and recieved_at values
\* they are drawn from, and the page sizes asked for.
MaxListEvents == 4
MaxListEndpoints == 2
MaxReceivedAt == 2
MaxListLimit == 2

\* Listing with the limit and offset of the query: the upper limit of a page
\* (50 in the source) scaled down, and how far below and above zero the
\* integers of a query go.
MAX_LIST_LIMIT == 3
MaxNegativeQueryInt == 1
MaxQueryInt == 5

\* Signals the process receives, and management requests it handles.
MaxSignals == 2
MaxMgmtRequests == 2

\* ------------------------------------------------------------------------
\* Strings
\* ------------------------------------------------------------------------
\* A string is a sequence of fragments.  The message of a caught error goes
\* through String.prototype.includes, so it is spelled one character per
\* fragment; the fixed messages are a single fragment.
Includes(s, needle) ==
    \E i \in 0..(Len(s) - Len(needle)) :
        \A k \in 1..Len(needle) : s[i + k] = needle[k]

\* The needles of attemptDelivery's isTimeout test.
NeedleTimeout == <<"t","i","m","e","o","u","t">>
NeedleEtimedout == <<"E","T","I","M","E","D","O","U","T">>
NeedleHeadersTimeout ==
    <<"U","N","D","_","E","R","R","_","H","E","A","D","E","R","S","_",
      "T","I","M","E","O","U","T">>
NeedleBodyTimeout ==
    <<"U","N","D","_","E","R","R","_","B","O","D","Y","_",
      "T","I","M","E","O","U","T">>

\* Messages of the errors undici's request() rejects with.
\* HeadersTimeoutError (code UND_ERR_HEADERS_TIMEOUT): "Headers Timeout Error"
MsgHeadersTimeout ==
    <<"H","e","a","d","e","r","s"," ","T","i","m","e","o","u","t"," ",
      "E","r","r","o","r">>
\* connection refused by the destination: "connect ECONNREFUSED"
MsgConnRefused ==
    <<"c","o","n","n","e","c","t"," ","E","C","O","N","N","R","E","F","U",
      "S","E","D">>
\* TCP connect timed out in the operating system: "connect ETIMEDOUT"
MsgConnTimedOut ==
    <<"c","o","n","n","e","c","t"," ","E","T","I","M","E","D","O","U","T">>

NoString == <<>>


\* ------------------------------------------------------------------------
\* Identifiers and inputs
\* ------------------------------------------------------------------------
Events == 1..NumEvents

\* The endpoint the captured events belong to (Event.endpoint_id).
TheEndpoint == 1

\* Job ids: "delivery-{event_id}" for the job of an ingest, and
\* "retry-{delivery_id}-{now_ms}" for the k-th accepted manual retry.
DeliveryJobId(e) == e
RetryJobId(k) == NumEvents + k
JobIds == 1..(NumEvents + MaxManualRetries)
IngestJobs == {DeliveryJobId(e) : e \in Events}
RetryJobs == JobIds \ IngestJobs

\* Absent optional values (parent_delivery_id, response_status).
None == 0

\* config.HOOKFREIGHT_BASE_URL and the forward URLs of the runs: a
\* destination of the operator, and the scenario's URL that points back at
\* the system's own ingest route.
BaseUrl == "http://localhost:3030"
DestUrl == "http://dest.example/hook"
SelfUrl == "http://localhost:3030/deadbeefdeadbeefdeadbeef"
NoUrl == ""
ForwardUrls == {NoUrl, DestUrl, SelfUrl}

\* What the destination does with one outbound request: it answers with a
\* status code, or request() rejects with an error.
StatusCodes == {200, 400, 500}
ErrorMessages == {MsgHeadersTimeout, MsgConnRefused, MsgConnTimedOut}
Outcomes ==
    [kind : {"response"}, code : StatusCodes, message : {NoString}]
        \cup [kind : {"error"}, code : {None}, message : ErrorMessages]
NotSent == [kind |-> "none", code |-> None, message |-> NoString]

\* ------------------------------------------------------------------------
\* attemptDelivery: classification of an attempt
\* ------------------------------------------------------------------------
\* A variant of IsSuccess that takes every answer below 500 for a success.
IsSuccessBelow500(statusCode) == statusCode >= 200 /\ statusCode < 500

IsSuccess(statusCode) == statusCode >= 200 /\ statusCode < 300

IsTimeout(errorMessage) ==
    \/ Includes(errorMessage, NeedleTimeout)
    \/ Includes(errorMessage, NeedleEtimedout)
    \/ Includes(errorMessage, NeedleHeadersTimeout)
    \/ Includes(errorMessage, NeedleBodyTimeout)

Refused(message) ==
    [success |-> FALSE, status |-> "failed", responseStatus |-> None,
     errorMessage |-> <<message>>]

ResponseResult(statusCode) ==
    [success |-> IsSuccess(statusCode),
     status |-> IF IsSuccess(statusCode) THEN "delivered" ELSE "failed",
     responseStatus |-> statusCode,
     errorMessage |-> IF IsSuccess(statusCode) THEN NoString
                      ELSE <<"Received status ", ToString(statusCode)>>]

CaughtResult(errorMessage) ==
    [success |-> FALSE,
     status |-> IF IsTimeout(errorMessage) THEN "timeout" ELSE "failed",
     responseStatus |-> None,
     errorMessage |-> errorMessage]

ResultOf(outcome) ==
    IF outcome.kind = "response" THEN ResponseResult(outcome.code)
    ELSE CaughtResult(outcome.message)

NoResult ==
    [success |-> FALSE, status |-> "none", responseStatus |-> None,
     errorMessage |-> NoString]

\* ------------------------------------------------------------------------
\* State
\* ------------------------------------------------------------------------
VARIABLES
    endpoint,    \* the Endpoint document: exists, forwarding_enabled, forward_url
    events,      \* ids of the Event documents in the event store
    created,     \* number of events captured so far (the next event id - 1)
    toHandle,    \* events whose fire-and-forget handleEvent has not run yet
    jobs,        \* the BullMQ queue "webhook-deliveries": job id -> job
    deliveries,  \* the Delivery collection, in insertion order; _id = index
    updates,     \* number of endpoint updates made so far
    retries,     \* number of manual retries accepted so far
    started,     \* number of attempts started so far, over all jobs
    log,         \* history: per job, what each of its attempts did
    queueLog,    \* history: per job id, the adds to and removals from the queue
    resubmits,   \* number of repeated handleEvent calls made so far
    eventDocs,   \* the Event documents by id, as createEvent stored them
    responses,   \* history: the ingest requests handled, with their answers
    proc,        \* the server process: HTTP server, queue and worker handles, exit
    mgmt,        \* history: the management API requests handled, with their answers
    timer,       \* one job of the queue seen with the clock (backoff)
    db,          \* apps, endpoints and events of the app-delete cascade
    listing,     \* the event collection of an endpoint and the pages listed from it
    outbound     \* the stored headers and endpoint of one forward, and the headers built

vars == <<endpoint, events, created, toHandle, jobs, deliveries, updates,
          retries, started, log, queueLog, resubmits, eventDocs, responses,
          proc, mgmt, timer, db, listing, outbound>>

\* The variables of the delivery pipeline.
pipelineVars ==
    <<endpoint, events, created, toHandle, jobs, deliveries, updates,
      retries, started, log, queueLog, resubmits, eventDocs, responses>>

\* The variables that the delivery pipeline's own steps leave alone.
sideVars == <<proc, mgmt, timer, db, listing, outbound>>

NoJobData == [eventId |-> None, endpointId |-> None, parentDeliveryId |-> None]

\* A job id that was never added.
AbsentJob ==
    [state |-> "absent", attemptsMade |-> 0, data |-> NoJobData,
     pc |-> "idle", result |-> NoResult, delivery |-> None]

\* A job as queue.add() stores it.
NewJob(data) ==
    [state |-> "waiting", attemptsMade |-> 0, data |-> data,
     pc |-> "idle", result |-> NoResult, delivery |-> None]

ActiveJobs == {j \in JobIds : jobs[j].state = "active"}

\* ------------------------------------------------------------------------
\* The delivery ledger
\* ------------------------------------------------------------------------
DeliveryIds == 1..Len(deliveries)

\* A variant of DuplicateKey for a collection without the unique index.
NoUniqueIndex(ledger, eventId, parentDeliveryId) == FALSE

\* deliverySchema.index({event_id: 1, parent_delivery_id: 1}, {unique: true}):
\* an insert of a pair that is already in the collection is rejected
\* (a missing parent_delivery_id is indexed as one value, null).
DuplicateKey(ledger, eventId, parentDeliveryId) ==
    \E d \in 1..Len(ledger) :
        /\ ledger[d].event_id = eventId
        /\ ledger[d].parent_delivery_id = parentDeliveryId

\* The document recordDelivery creates (endpoint?.forward_url ?? "unknown":
\* only a missing endpoint gives "unknown", an empty forward_url is kept).
DeliveryDoc(eventId, result, parentDeliveryId, ep) ==
    [event_id |-> eventId,
     parent_delivery_id |-> parentDeliveryId,
     status |-> result.status,
     destination_url |-> IF ep.exists THEN ep.forward_url ELSE "unknown",
     response_status |-> result.responseStatus,
     error_message |-> result.errorMessage]

\* DeliveryModel.create rejects: destination_url is a required string (an
\* empty string does not satisfy the validator), and the unique index.
CreateRejected(ledger, doc) ==
    \/ doc.destination_url = NoUrl
    \/ DuplicateKey(ledger, doc.event_id, doc.parent_delivery_id)

\* ------------------------------------------------------------------------
\* The queue's retry policy
\* ------------------------------------------------------------------------
\* A variant of AttemptsRemain that allows one attempt more.
AttemptsRemainOneMore(attemptsMade) == attemptsMade <= MaxRetries

\* defaultJobOptions.attempts = HOOKFREIGHT_QUEUE_MAX_RETRIES: a job whose
\* processor threw is scheduled again (after its backoff) while the attempts
\* it has made are fewer than that; otherwise it is moved to failed.
AttemptsRemain(attemptsMade) == attemptsMade < MaxRetries

\* A variant of JobAfterThrow in which the error is swallowed.
JobAfterThrowCompleted(job) ==
    [job EXCEPT
        !.attemptsMade = @ + 1, !.state = "completed",
        !.pc = "idle", !.result = NoResult, !.delivery = None]

\* The job after its processor threw.
JobAfterThrow(job) ==
    [job EXCEPT
        !.attemptsMade = @ + 1,
        !.state = IF AttemptsRemain(job.attemptsMade + 1)
                  THEN "delayed" ELSE "failed",
        !.pc = "idle", !.result = NoResult, !.delivery = None]

\* The job after its processor returned.
JobAfterReturn(job) ==
    [job EXCEPT
        !.attemptsMade = @ + 1, !.state = "completed",
        !.pc = "idle", !.result = NoResult, !.delivery = None]

\* ------------------------------------------------------------------------
\* History of the attempts (not program state)
\* ------------------------------------------------------------------------
\* One entry per attempt a worker made for the job: the forward_url of the
\* endpoint attemptDelivery loaded (NoUrl if it refused before reading it),
\* whether a request went out, what came back, the status and error message
\* attemptDelivery returned, the delivery the attempt recorded (None if
\* none), and whether the attempt has ended.
AttemptEntry(url, sent, outcome, result) ==
    [url |-> url, sent |-> sent, outcome |-> outcome,
     status |-> result.status, message |-> result.errorMessage,
     rec |-> None, ended |-> FALSE]

LastOf(seq) == seq[Len(seq)]

SetLast(seq, entry) == [seq EXCEPT ![Len(seq)] = entry]

\* ------------------------------------------------------------------------
\* Initial state
\* ------------------------------------------------------------------------
\* An endpoint as createEndpoint stores it: forwarding_enabled as given
\* (default false), forward_url as given (default "").
EndpointConfigs ==
    [exists : {TRUE}, forwarding_enabled : BOOLEAN, forward_url : ForwardUrls]

DeletedEndpoint ==
    [exists |-> FALSE, forwarding_enabled |-> FALSE, forward_url |-> NoUrl]

\* The process after main() ran: deliveriesService.initialize() created the
\* queue and the worker, and the server listens.
Running ==
    [server |-> "listening", deliveryWorker |-> "running",
     deliveryQueue |-> "open", exited |-> FALSE, signals |-> 0,
     draining |-> {}, queuesCreated |-> 1, workersCreated |-> 1]

\* No job under the clock, no apps, nothing to list.
TimerIdle ==
    [now |-> 0, state |-> "absent", attemptsMade |-> 0, delayedUntil |-> 0,
     failedAt |-> <<>>, startedAt |-> <<>>]

\* The app, endpoint and event collections: endpoints map to their app_id
\* and events to their endpoint_id, None where no document exists.
AppIds == 1..MaxApps
DbEndpointIds == 1..MaxDbEndpoints
DbEventIds == 1..MaxDbEvents

Collections(appDocs, endpointDocs, evDocs) ==
    [apps |-> appDocs, endpoints |-> endpointDocs, events |-> evDocs]

\* The store with no deleteApp call running: the session's view is the
\* committed collections. ingest is the endpoint an ingest request has
\* found and not yet stored its event for (None if there is none).
Idle(c, result, id, before, calls, deletes) ==
    [committed |-> c, session |-> c, pc |-> "none", id |-> id,
     cursor |-> {}, batch |-> {}, calls |-> calls, before |-> before,
     result |-> result, deletes |-> deletes, ingest |-> None]

EmptyDb ==
    LET c == Collections({}, [e \in DbEndpointIds |-> None],
                         [v \in DbEventIds |-> None])
    IN Idle(c, "none", None, c, <<>>, 0)

\* The event collection as listing sees it (_id -> endpoint_id and
\* recieved_at), the endpoint and limit of the listing in progress, and the
\* pages returned so far.
ListEventIds == 1..MaxListEvents
ListEndpointIds == 1..MaxListEndpoints

\* A query parameter: absent, or an integer.
NotGiven == [given |-> FALSE, n |-> 0]
Given(n) == [given |-> TRUE, n |-> n]
NoQuery == [limit |-> NotGiven, offset |-> NotGiven]

NotListing(docs) ==
    [docs |-> docs, endpoint |-> None, limit |-> 1, pages |-> <<>>,
     asked |-> NoQuery]

NoListing ==
    NotListing([i \in ListEventIds |-> [endpoint_id |-> 1, recieved_at |-> 1]])

\* The headers of an object by name, and a forward not yet built: no stored
\* headers, an endpoint without authentication, no headers built.
NoHeaders == <<>>
NoAuthentication == [header_name |-> "", header_value |-> ""]
NoOutbound ==
    [originalHeaders |-> NoHeaders, authentication |-> NoAuthentication,
     built |-> FALSE, headers |-> NoHeaders]

\* The pipeline's part of the initial state.
PipelineInit ==
    /\ events = {}
    /\ created = 0
    /\ toHandle = {}
    /\ jobs = [j \in JobIds |-> AbsentJob]
    /\ deliveries = <<>>
    /\ updates = 0
    /\ retries = 0
    /\ started = 0
    /\ log = [j \in JobIds |-> <<>>]
    /\ queueLog = [j \in JobIds |-> <<>>]
    /\ resubmits = 0
    /\ eventDocs = <<>>
    /\ responses = <<>>
    /\ proc = Running
    /\ mgmt = <<>>

\* The state when the server has started, for every endpoint configuration.
Init ==
    /\ endpoint \in EndpointConfigs
    /\ PipelineInit
    /\ timer = TimerIdle
    /\ db = EmptyDb
    /\ listing = NoListing
    /\ outbound = NoOutbound

\* ------------------------------------------------------------------------
\* Collaborators: endpoint registry, ingest, application delete
\* ------------------------------------------------------------------------
\* endpointsService.updateEndpoint: only the provided fields change; an
\* empty forward_url counts as not provided.
UpdateEndpoint(enabled, url) ==
    /\ updates < MaxEndpointUpdates
    /\ updates' = updates + 1
    /\ endpoint.exists
    /\ endpoint' = [endpoint EXCEPT !.forwarding_enabled = enabled,
                                    !.forward_url = IF url = NoUrl THEN @ ELSE url]
    /\ endpoint' # endpoint
    /\ UNCHANGED sideVars
    /\ UNCHANGED <<queueLog, resubmits, eventDocs, responses,
                   events, created, toHandle, jobs, deliveries, retries,
                   started, log>>

\* endpointsService.deleteEndpoint: the endpoint goes, its events stay.
DeleteEndpoint ==
    /\ endpoint.exists
    /\ endpoint' = DeletedEndpoint
    /\ UNCHANGED sideVars
    /\ UNCHANGED <<queueLog, resubmits, eventDocs, responses,
                   updates, events, created, toHandle, jobs, deliveries, retries,
                   started, log>>

\* appsService.deleteApp: in one transaction, the events of the app's
\* endpoints and then the endpoints are deleted.
DeleteApp ==
    /\ endpoint.exists
    /\ events' = {}
    /\ endpoint' = DeletedEndpoint
    /\ UNCHANGED sideVars
    /\ UNCHANGED <<queueLog, resubmits, eventDocs, responses,
                   updates, created, toHandle, jobs, deliveries, retries, started, log>>

\* ------------------------------------------------------------------------
\* Ingest: router.all("/:hook_token", rawBody, eventsController.createEvent)
\* ------------------------------------------------------------------------
\* A request body of n bytes.
Bytes(n) == [i \in 1..n |-> "x"]

Methods == {"POST", "GET", "DELETE"}

\* const ALLOWED_METHODS = new Set(["POST", "PUT", "PATCH", "GET"])
ALLOWED_METHODS == {"POST", "PUT", "PATCH", "GET"}

\* An ingest request: its method, whether its hook_token is the endpoint's,
\* whether it has a Content-Type header, whether it announces a body
\* (Content-Length or Transfer-Encoding), and the bytes of the body.
Requests ==
    {r \in [method : Methods, token : {"known", "unknown"},
            contentType : BOOLEAN, framed : BOOLEAN,
            body : {Bytes(n) : n \in 0..(MaxBodyBytes + 1)}] :
        ~r.framed => r.body = <<>>}

\* A webhook as a provider posts it.
PlainPost ==
    [method |-> "POST", token |-> "known", contentType |-> TRUE,
     framed |-> TRUE, body |-> Bytes(1)]

\* Values of req.rawBody and req.body: a Buffer, or something else.
Buffer(bytes) == [buffer |-> TRUE, bytes |-> bytes, text |-> <<>>]
NotBuffer(text) == [buffer |-> FALSE, bytes |-> <<>>, text |-> text]

\* req.body where the body parser read nothing: {} or undefined, depending
\* on the parser's version; text is JSON.stringify(req.body ?? null).
UnparsedBodies == {NotBuffer(<<"{", "}">>), NotBuffer(<<"n", "u", "l", "l">>)}

\* req.rawBody where verify was not called.
Undefined == NotBuffer(<<>>)

\* express.raw({type: "*/*", ...}) reads the body of a request that
\* announces one and has a content type; other requests pass unread.
ShouldParse(req) == req.framed /\ req.contentType

\* limit: config.HOOKFREIGHT_MAX_BODY_BYTES, for the bodies the parser reads.
TooLarge(req) == ShouldParse(req) /\ Len(req.body) > MaxBodyBytes

\* The rawBody middleware on a request it lets through: verify stores the
\* bytes read in req.rawBody, and req.body is the same Buffer.
RawBody(req, unparsed) ==
    IF ShouldParse(req)
    THEN [rawBody |-> Buffer(req.body), body |-> Buffer(req.body)]
    ELSE [rawBody |-> Undefined, body |-> unparsed]

\* const bodyBuffer = Buffer.isBuffer(req.rawBody) ? req.rawBody :
\*     Buffer.isBuffer(req.body) ? req.body : Buffer.from(JSON.stringify(...))
BodyBuffer(rawBody, body) ==
    IF rawBody.buffer THEN rawBody.bytes
    ELSE IF body.buffer THEN body.bytes
    ELSE body.text

\* The Event document createEvent builds.
EventDoc(req, bodyBuffer) ==
    [endpoint_id |-> TheEndpoint, method |-> req.method,
     body |-> bodyBuffer, size_bytes |-> Len(bodyBuffer)]

\* EventModel.create rejects: body is a required Buffer, and an empty
\* Buffer does not satisfy the validator.
EventRejected(doc) == Len(doc.body) = 0

\* EndpointModel.findOne({hook_token: req.params.hook_token})
FindEndpoint(req) == req.token = "known" /\ endpoint.exists

\* The answer to an ingest request, and the event it stored (None if none).
Response(req, status, message, event) ==
    [req |-> req, status |-> status, message |-> message, event |-> event]

\* The request is answered and leaves nothing behind.
Answer(req, status, message) ==
    /\ responses' = Append(responses, Response(req, status, message, None))
    /\ UNCHANGED <<events, eventDocs, created, toHandle>>

\* The request handled by rawBody, eventsController.createEvent (calling
\* eventsService.createEvent) and, for what they throw, errorHandler.
\* handleEvent is started without being awaited.
CreateEvent(req) ==
    /\ proc.server = "listening"
    /\ Len(responses) < MaxRequests
    /\ \E unparsed \in UnparsedBodies :
        LET mw == RawBody(req, unparsed)
            doc == EventDoc(req, BodyBuffer(mw.rawBody, mw.body))
        IN
        IF TooLarge(req)
        THEN Answer(req, 413, "payload_too_large")
        ELSE IF req.method \notin ALLOWED_METHODS
        THEN Answer(req, 405, "method_not_allowed")
        ELSE IF ~FindEndpoint(req)
        THEN Answer(req, 404, "endpoint_not_found")
        ELSE IF EventRejected(doc)
        THEN Answer(req, 500, "an error occured, please try again later.")
        ELSE /\ created < NumEvents
             /\ created' = created + 1
             /\ events' = events \cup {created + 1}
             /\ eventDocs' = Append(eventDocs, doc)
             /\ toHandle' = toHandle \cup {created + 1}
             /\ responses' = Append(responses,
                                    Response(req, 200, "event_created", created + 1))
    /\ UNCHANGED sideVars
    /\ UNCHANGED <<queueLog, resubmits,
                   updates, endpoint, jobs, deliveries, retries, started, log>>

\* ------------------------------------------------------------------------
\* Delivery scheduler
\* ------------------------------------------------------------------------
\* getDeliveryQueue(): the queue handle is created when there is none.
GetDeliveryQueue(p) ==
    IF p.deliveryQueue = "null"
    THEN [p EXCEPT !.deliveryQueue = "open", !.queuesCreated = @ + 1]
    ELSE p

\* A variant of QueueAdd that stores the job whatever is in the queue.
QueueAddAlways(queue, jobId, data) == [queue EXCEPT ![jobId] = NewJob(data)]

\* queue.add(name, data, {jobId}): a job id that is already in the queue is
\* not added again.
QueueAdd(queue, jobId, data) ==
    IF queue[jobId].state = "absent"
    THEN [queue EXCEPT ![jobId] = NewJob(data)]
    ELSE queue

\* What queue.add leaves in the history of the job id: an entry when it
\* stored a job (with the delivery a manual retry was requested for, None
\* for the job of a captured event), nothing when the id was in the queue.
QueueLogAfterAdd(queue, history, jobId, data, request) ==
    IF queue[jobId].state = "absent"
    THEN [history EXCEPT
            ![jobId] = Append(@, [op |-> "added", data |-> data,
                                  request |-> request])]
    ELSE history

\* A variant of DeliveryJobData that names the event id after e's.
DeliveryJobDataNextEvent(e) ==
    [eventId |-> e + 1, endpointId |-> TheEndpoint, parentDeliveryId |-> None]

\* The job data handleEvent submits for event e.
DeliveryJobData(e) ==
    [eventId |-> e, endpointId |-> TheEndpoint, parentDeliveryId |-> None]

\* A variant of HandleEvent that submits the job whatever the endpoint is.
HandleEventUnchecked(e) ==
    /\ e \in toHandle
    /\ toHandle' = toHandle \ {e}
    /\ proc' = GetDeliveryQueue(proc)
    /\ jobs' = QueueAdd(jobs, DeliveryJobId(e), DeliveryJobData(e))
    /\ queueLog' = QueueLogAfterAdd(jobs, queueLog, DeliveryJobId(e),
                                    DeliveryJobData(e), None)
    /\ UNCHANGED <<mgmt, timer, db, listing, outbound>>
    /\ UNCHANGED <<resubmits, eventDocs, responses,
                   updates, endpoint, events, created, deliveries, retries, started, log>>

\* deliveriesService.handleEvent
HandleEvent(e) ==
    /\ e \in toHandle
    /\ toHandle' = toHandle \ {e}
    /\ IF ~endpoint.exists \/ ~endpoint.forwarding_enabled
          \/ endpoint.forward_url = NoUrl
       THEN UNCHANGED <<jobs, queueLog, proc>>
       ELSE /\ proc' = GetDeliveryQueue(proc)
            /\ jobs' = QueueAdd(jobs, DeliveryJobId(e), DeliveryJobData(e))
            /\ queueLog' = QueueLogAfterAdd(jobs, queueLog, DeliveryJobId(e),
                                            DeliveryJobData(e), None)
    /\ UNCHANGED <<mgmt, timer, db, listing, outbound>>
    /\ UNCHANGED <<resubmits, eventDocs, responses,
                   updates, endpoint, events, created, deliveries, retries, started, log>>

\* A variant of HandleEventFails that takes the event back out of the store.
HandleEventFailsRollsBack(e) ==
    /\ e \in toHandle
    /\ toHandle' = toHandle \ {e}
    /\ events' = events \ {e}
    /\ UNCHANGED sideVars
    /\ UNCHANGED <<queueLog, resubmits, eventDocs, responses, jobs,
                   updates, endpoint, created, deliveries, retries, started, log>>

\* deliveriesService.handleEvent rejects (the endpoint lookup or queue.add
\* fails): createEvent's .catch logs the error, nothing else happens.
HandleEventFails(e) ==
    /\ e \in toHandle
    /\ toHandle' = toHandle \ {e}
    /\ queueLog' = [queueLog EXCEPT
                      ![DeliveryJobId(e)] =
                          Append(@, [op |-> "rejected", data |-> DeliveryJobData(e),
                                     request |-> None])]
    /\ UNCHANGED sideVars
    /\ UNCHANGED <<resubmits, eventDocs, responses, jobs,
                   updates, endpoint, events, created, deliveries, retries, started, log>>

\* A further call of deliveriesService.handleEvent for a stored event.
ResubmitEvent(e) ==
    /\ resubmits < MaxResubmits
    /\ e \in events
    /\ e \notin toHandle
    /\ resubmits' = resubmits + 1
    /\ toHandle' = toHandle \cup {e}
    /\ UNCHANGED sideVars
    /\ UNCHANGED <<queueLog, eventDocs, responses, jobs,
                   updates, endpoint, events, created, deliveries, retries, started, log>>

\* removeOnComplete / removeOnFail: a finished job is removed from the queue
\* once it is older than the retention age or beyond the retention count.
RemoveJob(j) ==
    /\ jobs[j].state \in {"completed", "failed"}
    /\ jobs' = [jobs EXCEPT ![j] = AbsentJob]
    /\ queueLog' = [queueLog EXCEPT
                      ![j] = Append(@, [op |-> "removed", data |-> jobs[j].data,
                                        request |-> None])]
    /\ UNCHANGED sideVars
    /\ UNCHANGED <<resubmits, eventDocs, responses,
                   updates, endpoint, events, created, toHandle, deliveries, retries,
                   started, log>>

\* The answer to a management API request.
MgmtAnswer(op, arg, status, message) ==
    [op |-> op, arg |-> arg, status |-> status, message |-> message]

\* The job data of a manual retry of delivery d.
RetryJobData(d) ==
    [eventId |-> deliveries[d].event_id, endpointId |-> TheEndpoint,
     parentDeliveryId |-> d]

\* deliveriesService.retryDelivery: the delivery and its event must exist.
RetryDelivery(d) ==
    /\ retries < MaxManualRetries
    /\ d \in DeliveryIds
    /\ deliveries[d].event_id \in events
    /\ retries' = retries + 1
    /\ jobs' = QueueAdd(jobs, RetryJobId(retries + 1), RetryJobData(d))
    /\ queueLog' = QueueLogAfterAdd(jobs, queueLog, RetryJobId(retries + 1),
                                    RetryJobData(d), d)
    /\ proc' = GetDeliveryQueue(proc)
    /\ mgmt' = Append(mgmt, MgmtAnswer("retry", d, 200,
                                       "Retry queued successfully"))
    /\ UNCHANGED <<timer, db, listing, outbound>>
    /\ UNCHANGED <<resubmits, eventDocs, responses,
                   updates, endpoint, events, created, toHandle, deliveries, started, log>>

\* new Error(message): an error that carries no status.
PlainError(message) == [status |-> None, message |-> message]

\* errorHandler for an error that is neither a body-size nor a validation
\* error: status = err.status ?? 500, and a fixed message for 500.
ErrorHandler(err) ==
    LET status == IF err.status # None THEN err.status ELSE 500
    IN [status |-> status,
        message |-> IF status = 500
                    THEN "an error occured, please try again later."
                    ELSE err.message]

\* deliveriesService.retryDelivery for a delivery id that is not stored, or
\* whose event is not: it throws before it reaches the queue, and the
\* controller passes the error to errorHandler.
RetryRefused(d) ==
    /\ Len(mgmt) < MaxMgmtRequests
    /\ \/ d \notin DeliveryIds
       \/ d \in DeliveryIds /\ deliveries[d].event_id \notin events
    /\ LET err == IF d \notin DeliveryIds
                  THEN PlainError("Delivery not found")
                  ELSE PlainError("Event not found")
           answer == ErrorHandler(err)
       IN mgmt' = Append(mgmt, MgmtAnswer("retry", d, answer.status, answer.message))
    /\ UNCHANGED <<proc, timer, db, listing, outbound>>
    /\ UNCHANGED pipelineVars

\* ------------------------------------------------------------------------
\* Delivery worker
\* ------------------------------------------------------------------------
\* The worker takes a waiting job while fewer than `concurrency` jobs are
\* active, and calls the processor.
StartJob(j) ==
    /\ proc.deliveryWorker = "running"
    /\ jobs[j].state = "waiting"
    /\ Cardinality(ActiveJobs) < Concurrency
    /\ started < MaxAttempts
    /\ started' = started + 1
    /\ jobs' = [jobs EXCEPT ![j].state = "active", ![j].pc = "attempt"]
    /\ UNCHANGED sideVars
    /\ UNCHANGED <<queueLog, resubmits, eventDocs, responses,
                   updates, endpoint, events, created, toHandle, deliveries, retries, log>>

\* The worker takes a waiting job after MaxAttempts attempts have been
\* counted: the step of StartJob, with the count left at its bound.
StartJobUncounted(j) ==
    /\ proc.deliveryWorker = "running"
    /\ jobs[j].state = "waiting"
    /\ Cardinality(ActiveJobs) < Concurrency
    /\ started = MaxAttempts
    /\ jobs' = [jobs EXCEPT ![j].state = "active", ![j].pc = "attempt"]
    /\ UNCHANGED sideVars
    /\ UNCHANGED <<queueLog, resubmits, eventDocs, responses, started,
                   updates, endpoint, events, created, toHandle, deliveries, retries, log>>

\* The backoff delay of a job that failed an attempt has passed.
PromoteDelayed(j) ==
    /\ jobs[j].state = "delayed"
    /\ jobs' = [jobs EXCEPT ![j].state = "waiting"]
    /\ UNCHANGED sideVars
    /\ UNCHANGED <<queueLog, resubmits, eventDocs, responses,
                   updates, endpoint, events, created, toHandle, deliveries, retries,
                   started, log>>

\* attemptDelivery's checks before the request: the result it returns
\* without sending, or NoResult when the request is to be sent.
PreCheck(eventId) ==
    IF eventId \notin events THEN Refused("Event not found")
    ELSE IF ~endpoint.exists THEN Refused("Endpoint not found")
    ELSE IF ~endpoint.forwarding_enabled \/ endpoint.forward_url = NoUrl
         THEN Refused("Forwarding not enabled or URL not configured")
    ELSE NoResult

\* const result = await attemptDelivery(eventId, endpointId)
AttemptDelivery(j) ==
    /\ jobs[j].state = "active"
    /\ jobs[j].pc = "attempt"
    /\ LET pre == PreCheck(jobs[j].data.eventId) IN
       IF pre # NoResult
       THEN /\ jobs' = [jobs EXCEPT ![j].pc = "record", ![j].result = pre]
            /\ log' = [log EXCEPT
                        ![j] = Append(@, AttemptEntry(NoUrl, FALSE, NotSent, pre))]
       ELSE \E outcome \in Outcomes :
            /\ jobs' = [jobs EXCEPT ![j].pc = "record",
                                    ![j].result = ResultOf(outcome)]
            /\ log' = [log EXCEPT
                        ![j] = Append(@, AttemptEntry(endpoint.forward_url, TRUE,
                                                      outcome, ResultOf(outcome)))]
    /\ UNCHANGED sideVars
    /\ UNCHANGED <<queueLog, resubmits, eventDocs, responses,
                   updates, endpoint, events, created, toHandle, deliveries, retries,
                   started>>

\* A variant of InsertDelivery that also overwrites the earlier records of the
\* same event with the new one.
InsertDeliveryOverwriting(coll, doc) ==
    Append([i \in 1..Len(coll) |->
               IF coll[i].event_id = doc.event_id THEN doc ELSE coll[i]], doc)

\* DeliveryModel.create(doc): the collection with the new record added.
InsertDelivery(coll, doc) == Append(coll, doc)

\* const delivery = await recordDelivery(...): when the insert is rejected
\* the processor throws; after a successful attempt it returns.
RecordDelivery(j) ==
    /\ jobs[j].state = "active"
    /\ jobs[j].pc = "record"
    /\ LET doc == DeliveryDoc(jobs[j].data.eventId, jobs[j].result,
                              jobs[j].data.parentDeliveryId, endpoint)
           id == Len(deliveries) + 1
       IN
       IF CreateRejected(deliveries, doc)
       THEN /\ deliveries' = deliveries
            /\ jobs' = [jobs EXCEPT ![j] = JobAfterThrow(@)]
            /\ log' = [log EXCEPT
                        ![j] = SetLast(@, [LastOf(@) EXCEPT !.ended = TRUE])]
       ELSE /\ deliveries' = InsertDelivery(deliveries, doc)
            /\ IF jobs[j].result.success
               THEN /\ jobs' = [jobs EXCEPT ![j] = JobAfterReturn(@)]
                    /\ log' = [log EXCEPT
                                ![j] = SetLast(@, [LastOf(@) EXCEPT
                                                    !.rec = id, !.ended = TRUE])]
               ELSE /\ jobs' = [jobs EXCEPT ![j].pc = "update",
                                            ![j].delivery = id]
                    /\ log' = [log EXCEPT
                                ![j] = SetLast(@, [LastOf(@) EXCEPT !.rec = id])]
    /\ UNCHANGED sideVars
    /\ UNCHANGED <<queueLog, resubmits, eventDocs, responses,
                   updates, endpoint, events, created, toHandle, retries, started>>

\* A variant of DataAfterFailure that links to the id after the recorded one.
DataAfterFailureNextId(data, deliveryId) ==
    [data EXCEPT !.parentDeliveryId = deliveryId + 1]

\* The job data after a failed attempt that recorded delivery deliveryId:
\* {...job.data, parentDeliveryId: delivery._id.toString()}
DataAfterFailure(data, deliveryId) ==
    [data EXCEPT !.parentDeliveryId = deliveryId]

\* await job.updateData(...); throw new Error(...)
UpdateData(j) ==
    /\ jobs[j].state = "active"
    /\ jobs[j].pc = "update"
    /\ jobs' = [jobs EXCEPT
                 ![j] = JobAfterThrow(
                          [@ EXCEPT !.data = DataAfterFailure(@, jobs[j].delivery)])]
    /\ log' = [log EXCEPT ![j] = SetLast(@, [LastOf(@) EXCEPT !.ended = TRUE])]
    /\ UNCHANGED sideVars
    /\ UNCHANGED <<queueLog, resubmits, eventDocs, responses,
                   updates, endpoint, events, created, toHandle, deliveries, retries,
                   started>>

\* recordDelivery rejects for a reason of the store (connection lost, write
\* error): the processor throws with nothing recorded.
RecordDeliveryFails(j) ==
    /\ jobs[j].state = "active"
    /\ jobs[j].pc = "record"
    /\ jobs' = [jobs EXCEPT ![j] = JobAfterThrow(@)]
    /\ log' = [log EXCEPT ![j] = SetLast(@, [LastOf(@) EXCEPT !.ended = TRUE])]
    /\ UNCHANGED sideVars
    /\ UNCHANGED <<queueLog, resubmits, eventDocs, responses, deliveries,
                   updates, endpoint, events, created, toHandle, retries, started>>

\* job.updateData rejects: the processor throws with the job data as it was.
UpdateDataFails(j) ==
    /\ jobs[j].state = "active"
    /\ jobs[j].pc = "update"
    /\ jobs' = [jobs EXCEPT ![j] = JobAfterThrow(@)]
    /\ log' = [log EXCEPT ![j] = SetLast(@, [LastOf(@) EXCEPT !.ended = TRUE])]
    /\ UNCHANGED sideVars
    /\ UNCHANGED <<queueLog, resubmits, eventDocs, responses, deliveries,
                   updates, endpoint, events, created, toHandle, retries, started>>

\* ------------------------------------------------------------------------
\* The process: queue statistics and shutdown
\* ------------------------------------------------------------------------
\* deliveriesService.getQueueStats, answered by deliveriesController.
GetQueueStats ==
    /\ Len(mgmt) < MaxMgmtRequests
    /\ proc' = GetDeliveryQueue(proc)
    /\ mgmt' = Append(mgmt, MgmtAnswer("stats", None, 200, "stats"))
    /\ UNCHANGED <<timer, db, listing, outbound>>
    /\ UNCHANGED <<queueLog, resubmits, eventDocs, responses, jobs, deliveries, log,
                   updates, endpoint, events, created, toHandle, retries, started>>

\* A variant of Signal in which a signal during a shutdown ends the process
\* at once.
SignalExitsWhenRepeated ==
    /\ proc.signals < MaxSignals
    /\ proc' = [proc EXCEPT
                 !.signals = @ + 1,
                 !.server = "closed",
                 !.draining = IF proc.signals = 0 THEN ActiveJobs ELSE @,
                 !.deliveryWorker = IF @ = "running" THEN "closing" ELSE @,
                 !.exited = proc.signals > 0]
    /\ UNCHANGED <<mgmt, timer, db, listing, outbound>>
    /\ UNCHANGED <<queueLog, resubmits, eventDocs, responses, jobs, deliveries, log,
                   updates, endpoint, events, created, toHandle, retries, started>>

\* SIGTERM or SIGINT: shutdown(signal) runs up to its first await, which is
\* in deliveriesService.shutdown at deliveryWorker.close(): the server stops
\* accepting connections and the worker begins to close. A further signal
\* starts a shutdown that waits on the same closing worker or queue.
Signal ==
    /\ proc.signals < MaxSignals
    /\ proc' = [proc EXCEPT
                 !.signals = @ + 1,
                 !.server = "closed",
                 !.draining = IF proc.signals = 0 THEN ActiveJobs ELSE @,
                 !.deliveryWorker = IF @ = "running" THEN "closing" ELSE @]
    /\ UNCHANGED <<mgmt, timer, db, listing, outbound>>
    /\ UNCHANGED <<queueLog, resubmits, eventDocs, responses, jobs, deliveries, log,
                   updates, endpoint, events, created, toHandle, retries, started>>

\* A variant of WorkerClosed that does not wait for the active jobs.
WorkerClosedForced ==
    /\ proc.deliveryWorker = "closing"
    /\ proc' = [proc EXCEPT !.deliveryWorker = "null", !.deliveryQueue = "closing"]
    /\ UNCHANGED <<mgmt, timer, db, listing, outbound>>
    /\ UNCHANGED <<queueLog, resubmits, eventDocs, responses, jobs, deliveries, log,
                   updates, endpoint, events, created, toHandle, retries, started>>

\* await deliveryWorker.close() returns, once no job is active; then
\* deliveryWorker = null and deliveryQueue.close() is called.
WorkerClosed ==
    /\ proc.deliveryWorker = "closing"
    /\ ActiveJobs = {}
    /\ proc' = [proc EXCEPT !.deliveryWorker = "null", !.deliveryQueue = "closing"]
    /\ UNCHANGED <<mgmt, timer, db, listing, outbound>>
    /\ UNCHANGED <<queueLog, resubmits, eventDocs, responses, jobs, deliveries, log,
                   updates, endpoint, events, created, toHandle, retries, started>>

\* A variant of QueueClosed in which the process stays up.
QueueClosedStaysUp ==
    /\ proc.deliveryQueue = "closing"
    /\ proc' = [proc EXCEPT !.deliveryQueue = "null"]
    /\ UNCHANGED <<mgmt, timer, db, listing, outbound>>
    /\ UNCHANGED <<queueLog, resubmits, eventDocs, responses, jobs, deliveries, log,
                   updates, endpoint, events, created, toHandle, retries, started>>

\* await deliveryQueue.close() returns; then deliveryQueue = null, shutdown
\* returns and process.exit(0) follows with nothing running in between.
QueueClosed ==
    /\ proc.deliveryQueue = "closing"
    /\ proc' = [proc EXCEPT !.deliveryQueue = "null", !.exited = TRUE]
    /\ UNCHANGED <<mgmt, timer, db, listing, outbound>>
    /\ UNCHANGED <<queueLog, resubmits, eventDocs, responses, jobs, deliveries, log,
                   updates, endpoint, events, created, toHandle, retries, started>>

\* ------------------------------------------------------------------------
\* One job of the queue under the clock
\* ------------------------------------------------------------------------
\* backoff: {type: "exponential", delay: 1000}
BackoffDelay == 1000

RECURSIVE Pow2(_)
Pow2(n) == IF n <= 0 THEN 1 ELSE 2 * Pow2(n - 1)

\* A variant of Backoff for the "fixed" strategy.
BackoffFixed(attemptsMade) == BackoffDelay

\* The delay the exponential strategy gives a job that has failed
\* attemptsMade times: 2 ^ (attemptsMade - 1) * delay.
Backoff(attemptsMade) == Pow2(attemptsMade - 1) * BackoffDelay

\* queue.add: the job waits.
TimerAdd ==
    /\ timer.state = "absent"
    /\ timer' = [timer EXCEPT !.state = "waiting"]
    /\ UNCHANGED <<proc, mgmt, db, listing, outbound>>
    /\ UNCHANGED pipelineVars

\* The worker takes the job.
TimerStart ==
    /\ timer.state = "waiting"
    /\ timer' = [timer EXCEPT !.state = "active",
                               !.startedAt = Append(@, timer.now)]
    /\ UNCHANGED <<proc, mgmt, db, listing, outbound>>
    /\ UNCHANGED pipelineVars

\* The processor throws: the job is delayed by its backoff while attempts
\* remain, and is failed otherwise.
TimerFail ==
    /\ timer.state = "active"
    /\ timer' = [timer EXCEPT
                  !.attemptsMade = @ + 1,
                  !.failedAt = Append(@, timer.now),
                  !.state = IF timer.attemptsMade + 1 < TimerAttempts
                            THEN "delayed" ELSE "failed",
                  !.delayedUntil = timer.now + Backoff(timer.attemptsMade + 1)]
    /\ UNCHANGED <<proc, mgmt, db, listing, outbound>>
    /\ UNCHANGED pipelineVars

\* The processor returns.
TimerSucceed ==
    /\ timer.state = "active"
    /\ timer' = [timer EXCEPT !.attemptsMade = @ + 1, !.state = "completed"]
    /\ UNCHANGED <<proc, mgmt, db, listing, outbound>>
    /\ UNCHANGED pipelineVars

\* The delay of the job has passed: it waits again.
TimerPromote ==
    /\ timer.state = "delayed"
    /\ timer.now >= timer.delayedUntil
    /\ timer' = [timer EXCEPT !.state = "waiting"]
    /\ UNCHANGED <<proc, mgmt, db, listing, outbound>>
    /\ UNCHANGED pipelineVars

\* Time passes.
Tick ==
    /\ timer.now < MaxTime
    /\ timer' = [timer EXCEPT !.now = @ + TickMs]
    /\ UNCHANGED <<proc, mgmt, db, listing, outbound>>
    /\ UNCHANGED pipelineVars

\* ------------------------------------------------------------------------
\* appsService.deleteApp
\* ------------------------------------------------------------------------
\* EndpointModel.find({app_id: id}): the endpoints of the app in collections c.
EndpointsOf(c, id) == {e \in DbEndpointIds : c.endpoints[e] = id}

\* EventModel.deleteMany({endpoint_id: {$in: batch}}, {session})
DeleteEvents(c, batch) ==
    [c EXCEPT !.events = [v \in DbEventIds |->
                            IF c.events[v] \in batch THEN None ELSE c.events[v]]]

\* EndpointModel.deleteMany({app_id: id}, {session})
DeleteEndpoints(c, id) ==
    [c EXCEPT !.endpoints = [e \in DbEndpointIds |->
                               IF c.endpoints[e] = id THEN None ELSE c.endpoints[e]]]

\* session.withTransaction(...): the callback starts on a snapshot of the
\* committed collections.
DeleteAppBegin(id) ==
    /\ db.pc = "none"
    /\ db.deletes < MaxDeletes
    /\ db' = [db EXCEPT !.pc = "app", !.id = id, !.session = db.committed,
                        !.before = db.committed, !.calls = <<>>,
                        !.result = "none", !.deletes = @ + 1]
    /\ UNCHANGED <<proc, mgmt, timer, listing, outbound>>
    /\ UNCHANGED pipelineVars

\* const deletedApp = await AppModel.findOneAndDelete(...);
\* if (!deletedApp) return null; then the cursor over the app's endpoints.
FindOneAndDelete ==
    /\ db.pc = "app"
    /\ IF db.id \in db.session.apps
       THEN db' = [db EXCEPT !.session.apps = @ \ {db.id},
                            !.cursor = EndpointsOf(db.session, db.id),
                            !.batch = {},
                            !.pc = "cursor"]
       ELSE db' = [db EXCEPT !.pc = "commit", !.result = "null"]
    /\ UNCHANGED <<proc, mgmt, timer, listing, outbound>>
    /\ UNCHANGED pipelineVars

\* for await (const doc of cursor): batch.push(doc._id), and a full batch
\* has its events deleted.
CursorNext ==
    /\ db.pc = "cursor"
    /\ \E e \in db.cursor :
         LET batch == db.batch \cup {e} IN
         IF Cardinality(batch) >= DELETE_CHUNK_SIZE
         THEN db' = [db EXCEPT !.cursor = @ \ {e},
                              !.session = DeleteEvents(@, batch),
                              !.calls = Append(@, [op |-> "events", ids |-> batch]),
                              !.batch = {}]
         ELSE db' = [db EXCEPT !.cursor = @ \ {e}, !.batch = batch]
    /\ UNCHANGED <<proc, mgmt, timer, listing, outbound>>
    /\ UNCHANGED pipelineVars

\* The cursor is exhausted: if (batch.length) the remaining endpoints' events
\* are deleted.
FinalBatch ==
    /\ db.pc = "cursor"
    /\ db.cursor = {}
    /\ IF db.batch # {}
       THEN db' = [db EXCEPT !.session = DeleteEvents(@, db.batch),
                            !.calls = Append(@, [op |-> "events", ids |-> db.batch]),
                            !.batch = {},
                            !.pc = "endpoints"]
       ELSE db' = [db EXCEPT !.pc = "endpoints"]
    /\ UNCHANGED <<proc, mgmt, timer, listing, outbound>>
    /\ UNCHANGED pipelineVars

\* await EndpointModel.deleteMany({app_id: parsedId}, {session}); return {...}
DeleteAppEndpoints ==
    /\ db.pc = "endpoints"
    /\ db' = [db EXCEPT
               !.calls = Append(@, [op |-> "endpoints",
                                    ids |-> EndpointsOf(db.session, db.id)]),
               !.session = DeleteEndpoints(@, db.id),
               !.pc = "commit",
               !.result = "deleted"]
    /\ UNCHANGED <<proc, mgmt, timer, listing, outbound>>
    /\ UNCHANGED pipelineVars

\* The committed collections c with the writes of a session applied: the
\* documents the session deleted from its snapshot are deleted, documents
\* written to c by others since the snapshot stay.
Applied(c, snapshot, session) ==
    Collections(c.apps \ (snapshot.apps \ session.apps),
                [e \in DbEndpointIds |->
                    IF snapshot.endpoints[e] # None /\ session.endpoints[e] = None
                    THEN None ELSE c.endpoints[e]],
                [v \in DbEventIds |->
                    IF snapshot.events[v] # None /\ session.events[v] = None
                    THEN None ELSE c.events[v]])

\* The callback returned: the transaction commits and the session's writes
\* become part of the committed collections.
Commit ==
    /\ db.pc = "commit"
    /\ db' = [Idle(Applied(db.committed, db.before, db.session), db.result,
                   db.id, db.before, db.calls, db.deletes)
                 EXCEPT !.ingest = db.ingest]
    /\ UNCHANGED <<proc, mgmt, timer, listing, outbound>>
    /\ UNCHANGED pipelineVars

\* A variant of Abort for a store without transactions: the writes made so
\* far stay.
AbortKeepsWrites ==
    /\ db.pc \in {"app", "cursor", "endpoints", "commit"}
    /\ db' = [Idle(db.session, "error", db.id, db.before, db.calls, db.deletes)
                 EXCEPT !.ingest = db.ingest]
    /\ UNCHANGED <<proc, mgmt, timer, listing, outbound>>
    /\ UNCHANGED pipelineVars

\* A step of the callback, or the commit, rejects: the transaction aborts,
\* the session's writes are discarded and deleteApp rejects.
Abort ==
    /\ db.pc \in {"app", "cursor", "endpoints", "commit"}
    /\ db' = [Idle(db.committed, "error", db.id, db.before, db.calls, db.deletes)
                 EXCEPT !.ingest = db.ingest]
    /\ UNCHANGED <<proc, mgmt, timer, listing, outbound>>
    /\ UNCHANGED pipelineVars

\* eventsService.createEvent, first half: EndpointModel.findOne finds the
\* endpoint of the hook token in the committed collections.
IngestLookup(e) ==
    /\ db.ingest = None
    /\ db.committed.endpoints[e] # None
    /\ \E v \in DbEventIds : db.committed.events[v] = None
    /\ db' = [db EXCEPT !.ingest = e]
    /\ UNCHANGED <<proc, mgmt, timer, listing, outbound>>
    /\ UNCHANGED pipelineVars

\* eventsService.createEvent, second half: EventModel.create stores the
\* event with the endpoint_id found before, outside any session.
IngestCreate ==
    /\ db.ingest # None
    /\ LET free == {v \in DbEventIds : db.committed.events[v] = None}
           id == CHOOSE v \in free : \A w \in free : v <= w
       IN /\ free # {}
          /\ db' = [db EXCEPT !.committed.events[id] = db.ingest,
                              !.ingest = None]
    /\ UNCHANGED <<proc, mgmt, timer, listing, outbound>>
    /\ UNCHANGED pipelineVars

\* ------------------------------------------------------------------------
\* eventsService.listEventsByEndpointId
\* ------------------------------------------------------------------------
Min(a, b) == IF a <= b THEN a ELSE b

\* A variant of Before that orders by recieved_at alone.
BeforeIgnoringId(docs, a, b) == docs[a].recieved_at >= docs[b].recieved_at

\* .sort({recieved_at: -1, _id: -1}): event a comes before event b.
Before(docs, a, b) ==
    \/ docs[a].recieved_at > docs[b].recieved_at
    \/ docs[a].recieved_at = docs[b].recieved_at /\ a > b

\* The events of S in sort order.
RECURSIVE Sorted(_, _)
Sorted(docs, S) ==
    IF S = {} THEN <<>>
    ELSE LET first == CHOOSE a \in S : \A b \in S \ {a} : Before(docs, a, b)
         IN <<first>> \o Sorted(docs, S \ {first})

\* EventModel.find({endpoint_id}).sort(...).skip(offset).limit(limit + 1);
\* has_next = docs.length > limit; events = docs.slice(0, limit)
ListEventsByEndpointId(docs, endpointId, limit, offset) ==
    LET found == Sorted(docs, {i \in ListEventIds : docs[i].endpoint_id = endpointId})
        fetched == SubSeq(found, offset + 1, Min(Len(found), offset + limit + 1))
    IN [events |-> SubSeq(fetched, 1, Min(Len(fetched), limit)),
        has_next |-> Len(fetched) > limit,
        limit |-> limit,
        offset |-> offset]

Max(a, b) == IF a >= b THEN a ELSE b

\* A variant of ListSchema without the upper limit.
ListSchemaUnbounded(limit, offset) ==
    [limit |-> Max(1, IF limit.given THEN limit.n ELSE 10),
     offset |-> Max(0, IF offset.given THEN offset.n ELSE 0)]

\* listSchema.parse({limit, offset}) for integers: limit defaults to 10 and
\* is clamped to [1, MAX_LIST_LIMIT], offset defaults to 0 and is clamped
\* to >= 0.
ListSchema(limit, offset) ==
    [limit |-> Max(1, Min(MAX_LIST_LIMIT, IF limit.given THEN limit.n ELSE 10)),
     offset |-> Max(0, IF offset.given THEN offset.n ELSE 0)]

\* listEventsByEndpointId(endpointId, limit, offset) with the limit and
\* offset of the query.
ListPage(endpointId, limit, offset) ==
    /\ listing.pages = <<>>
    /\ LET parsed == ListSchema(limit, offset) IN
       listing' = [listing EXCEPT
                    !.endpoint = endpointId,
                    !.limit = parsed.limit,
                    !.asked = [limit |-> limit, offset |-> offset],
                    !.pages = <<ListEventsByEndpointId(listing.docs, endpointId,
                                                       parsed.limit, parsed.offset)>>]
    /\ UNCHANGED <<proc, mgmt, timer, db, outbound>>
    /\ UNCHANGED pipelineVars

\* A client asks for the first page of an endpoint's events.
ListFirstPage(endpointId, limit) ==
    /\ listing.pages = <<>>
    /\ listing' = [listing EXCEPT
                    !.endpoint = endpointId,
                    !.limit = limit,
                    !.pages = <<ListEventsByEndpointId(listing.docs, endpointId,
                                                       limit, 0)>>]
    /\ UNCHANGED <<proc, mgmt, timer, db, outbound>>
    /\ UNCHANGED pipelineVars

\* The client asks for the page after the last one: offset + limit.
ListNextPage ==
    /\ listing.pages # <<>>
    /\ listing.pages[Len(listing.pages)].has_next
    /\ listing' = [listing EXCEPT
                    !.pages = Append(@, ListEventsByEndpointId(
                                  listing.docs, listing.endpoint, listing.limit,
                                  listing.pages[Len(listing.pages)].offset
                                      + listing.limit))]
    /\ UNCHANGED <<proc, mgmt, timer, db, outbound>>
    /\ UNCHANGED pipelineVars

\* The client starts over.
ListReset ==
    /\ listing.pages # <<>>
    /\ listing' = NotListing(listing.docs)
    /\ UNCHANGED <<proc, mgmt, timer, db, outbound>>
    /\ UNCHANGED pipelineVars

\* ------------------------------------------------------------------------
\* buildForwardHeaders
\* ------------------------------------------------------------------------
\* A stored header value: a string, or an array of strings.
Str(v) == [array |-> FALSE, values |-> <<v>>]
Arr(vs) == [array |-> TRUE, values |-> vs]

\* if (value): an empty string is skipped, an array is not.
Truthy(value) == value.array \/ value.values[1] # ""

\* Array.isArray(value) ? value[0] : value
FirstValue(value) == value.values[1]

safeHeadersToForward == {"content-type", "content-encoding", "accept", "user-agent"}

\* The header name as HTTP compares it, for the names of the model.
LowerCase(name) ==
    CASE name = "Content-Type" -> "content-type"
      [] name = "User-Agent" -> "user-agent"
      [] OTHER -> name

\* buildForwardHeaders(originalHeaders, endpoint): the object it returns.
\* Later assignments to a key replace earlier ones; keys are compared as
\* JavaScript strings.
BuildForwardHeaders(originalHeaders, authentication) ==
    LET copied == [k \in {k \in safeHeadersToForward \cap DOMAIN originalHeaders :
                              Truthy(originalHeaders[k])}
                     |-> FirstValue(originalHeaders[k])]
        markers == ("x-hookfreight-forwarded" :> "true")
                       @@ ("x-hookfreight-timestamp" :> "now")
    IN IF authentication.header_name # "" /\ authentication.header_value # ""
       THEN (authentication.header_name :> authentication.header_value)
                @@ markers @@ copied
       ELSE markers @@ copied

\* attemptDelivery builds the headers of its request.
BuildHeaders ==
    /\ ~outbound.built
    /\ outbound' = [outbound EXCEPT
                     !.built = TRUE,
                     !.headers = BuildForwardHeaders(outbound.originalHeaders,
                                                     outbound.authentication)]
    /\ UNCHANGED <<proc, mgmt, timer, db, listing>>
    /\ UNCHANGED pipelineVars

\* The same event is forwarded again.
BuildAgain ==
    /\ outbound.built
    /\ outbound' = [outbound EXCEPT !.built = FALSE, !.headers = NoHeaders]
    /\ UNCHANGED <<proc, mgmt, timer, db, listing>>
    /\ UNCHANGED pipelineVars

\* ------------------------------------------------------------------------
\* Specification
\* ------------------------------------------------------------------------
Next ==
    \/ \E enabled \in BOOLEAN, url \in ForwardUrls : UpdateEndpoint(enabled, url)
    \/ DeleteEndpoint
    \/ DeleteApp
    \/ \E req \in {PlainPost} : CreateEvent(req)
    \/ \E e \in Events : HandleEvent(e)
    \/ \E e \in Events : HandleEventFails(e)
    \/ \E d \in DeliveryIds : RetryDelivery(d)
    \/ \E j \in JobIds : StartJob(j)
    \/ \E j \in JobIds : PromoteDelayed(j)
    \/ \E j \in JobIds : AttemptDelivery(j)
    \/ \E j \in JobIds : RecordDelivery(j)
    \/ \E j \in JobIds : UpdateData(j)

Spec == Init /\ [][Next]_vars

\* The scheduler under repeated submission: handleEvent is called again for
\* stored events, and finished jobs leave the queue by retention.
NextEnqueue ==
    \/ \E req \in {PlainPost} : CreateEvent(req)
    \/ \E e \in Events : HandleEvent(e)
    \/ \E e \in Events : ResubmitEvent(e)
    \/ \E j \in JobIds : RemoveJob(j)
    \/ \E j \in JobIds : StartJob(j)
    \/ \E j \in JobIds : PromoteDelayed(j)
    \/ \E j \in JobIds : AttemptDelivery(j)
    \/ \E j \in JobIds : RecordDelivery(j)
    \/ \E j \in JobIds : UpdateData(j)

SpecEnqueue == Init /\ [][NextEnqueue]_vars

\* The ingest path under every request of Requests.
NextIngest ==
    \/ \E req \in Requests : CreateEvent(req)
    \/ \E e \in Events : HandleEvent(e)
    \/ \E e \in Events : HandleEventFails(e)
    \/ DeleteEndpoint

SpecIngest == Init /\ [][NextIngest]_vars

\* The pipeline of a forwarding endpoint, with failing writes.
ForwardingInit ==
    /\ endpoint = [exists |-> TRUE, forwarding_enabled |-> TRUE,
                   forward_url |-> DestUrl]
    /\ PipelineInit
    /\ timer = TimerIdle
    /\ db = EmptyDb
    /\ listing = NoListing
    /\ outbound = NoOutbound

NextFaults ==
    \/ \E req \in {PlainPost} : CreateEvent(req)
    \/ \E e \in Events : HandleEvent(e)
    \/ \E d \in DeliveryIds : RetryDelivery(d)
    \/ \E j \in JobIds : StartJob(j)
    \/ \E j \in JobIds : PromoteDelayed(j)
    \/ \E j \in JobIds : AttemptDelivery(j)
    \/ \E j \in JobIds : RecordDelivery(j)
    \/ \E j \in JobIds : RecordDeliveryFails(j)
    \/ \E j \in JobIds : UpdateData(j)
    \/ \E j \in JobIds : UpdateDataFails(j)

SpecFaults == ForwardingInit /\ [][NextFaults]_vars

\* The process until it has exited, with signals.
NextShutdown ==
    \/ ~proc.exited /\ Signal
    \/ ~proc.exited /\ \E req \in {PlainPost} : CreateEvent(req)
    \/ ~proc.exited /\ \E e \in Events : HandleEvent(e)
    \/ ~proc.exited /\ \E e \in Events : HandleEventFails(e)
    \/ ~proc.exited /\ \E d \in DeliveryIds : RetryDelivery(d)
    \/ ~proc.exited /\ GetQueueStats
    \/ ~proc.exited /\ \E j \in JobIds : StartJob(j)
    \/ ~proc.exited /\ \E j \in JobIds : PromoteDelayed(j)
    \/ ~proc.exited /\ \E j \in JobIds : AttemptDelivery(j)
    \/ ~proc.exited /\ \E j \in JobIds : RecordDelivery(j)
    \/ ~proc.exited /\ \E j \in JobIds : UpdateData(j)
    \/ ~proc.exited /\ WorkerClosed
    \/ ~proc.exited /\ QueueClosed

SpecShutdown == ForwardingInit /\ [][NextShutdown]_vars

\* The pipeline with manual retries of stored and of missing deliveries,
\* and app deletion removing events.
NextRetry ==
    \/ DeleteApp
    \/ \E req \in {PlainPost} : CreateEvent(req)
    \/ \E e \in Events : HandleEvent(e)
    \/ \E d \in DeliveryIds : RetryDelivery(d)
    \/ \E d \in 1..(Len(deliveries) + 1) : RetryRefused(d)
    \/ \E j \in JobIds : StartJob(j)
    \/ \E j \in JobIds : PromoteDelayed(j)
    \/ \E j \in JobIds : AttemptDelivery(j)
    \/ \E j \in JobIds : RecordDelivery(j)
    \/ \E j \in JobIds : UpdateData(j)

SpecRetry == ForwardingInit /\ [][NextRetry]_vars

\* The pipeline of a forwarding endpoint with a running worker that is
\* scheduled fairly: a job that can be taken is taken, a delay that has
\* passed is noticed, and a processor that can take its next step takes it.
NextLive ==
    \/ \E req \in {PlainPost} : CreateEvent(req)
    \/ \E e \in Events : HandleEvent(e)
    \/ \E d \in DeliveryIds : RetryDelivery(d)
    \/ \E j \in JobIds : StartJob(j)
    \/ \E j \in JobIds : StartJobUncounted(j)
    \/ \E j \in JobIds : PromoteDelayed(j)
    \/ \E j \in JobIds : AttemptDelivery(j)
    \/ \E j \in JobIds : RecordDelivery(j)
    \/ \E j \in JobIds : UpdateData(j)

WorkerFairness ==
    \A j \in JobIds :
        /\ WF_vars(StartJob(j) \/ StartJobUncounted(j))
        /\ WF_vars(PromoteDelayed(j))
        /\ WF_vars(AttemptDelivery(j))
        /\ WF_vars(RecordDelivery(j))
        /\ WF_vars(UpdateData(j))

SpecLive == ForwardingInit /\ [][NextLive]_vars /\ WorkerFairness

\* One job under the clock.
NextBackoff ==
    \/ TimerAdd
    \/ TimerStart
    \/ TimerFail
    \/ TimerSucceed
    \/ TimerPromote
    \/ Tick

SpecBackoff == ForwardingInit /\ [][NextBackoff]_vars

\* Listing the events of an endpoint page by page, with no inserts between
\* the pages.
InitList ==
    /\ endpoint = [exists |-> TRUE, forwarding_enabled |-> TRUE,
                   forward_url |-> DestUrl]
    /\ PipelineInit
    /\ timer = TimerIdle
    /\ db = EmptyDb
    /\ \E docs \in [ListEventIds -> [endpoint_id : ListEndpointIds,
                                      recieved_at : 1..MaxReceivedAt]] :
          listing = NotListing(docs)
    /\ outbound = NoOutbound

NextList ==
    \/ \E endpointId \in ListEndpointIds, limit \in 1..MaxListLimit :
          ListFirstPage(endpointId, limit)
    \/ ListNextPage
    \/ ListReset

SpecList == InitList /\ [][NextList]_vars

\* Single pages asked for with any limit and offset.
QueryInts == {NotGiven} \cup {Given(n) : n \in (0 - MaxNegativeQueryInt)..MaxQueryInt}

NextPage ==
    \/ \E endpointId \in ListEndpointIds, limit \in QueryInts, offset \in QueryInts :
          ListPage(endpointId, limit, offset)
    \/ ListReset

SpecPage == InitList /\ [][NextPage]_vars

\* Forwards of events with any stored headers to endpoints with any
\* authentication header. Stored header names are lower-case, as Node gives
\* them; the authentication header name is as the operator typed it.
OriginalNames == {"content-type", "user-agent", "x-signature"}
HeaderValues == {Str("a"), Str(""), Arr(<<"a", "b">>)}
OriginalHeaders == UNION {[S -> HeaderValues] : S \in SUBSET OriginalNames}
Authentications ==
    {NoAuthentication}
        \cup [header_name : {"authorization", "user-agent", "Content-Type"},
              header_value : {"secret"}]

InitHeaders ==
    /\ endpoint = [exists |-> TRUE, forwarding_enabled |-> TRUE,
                   forward_url |-> DestUrl]
    /\ PipelineInit
    /\ timer = TimerIdle
    /\ db = EmptyDb
    /\ listing = NoListing
    /\ \E o \in OriginalHeaders, a \in Authentications :
          outbound = [NoOutbound EXCEPT !.originalHeaders = o, !.authentication = a]

NextHeaders ==
    \/ BuildHeaders
    \/ BuildAgain

SpecHeaders == InitHeaders /\ [][NextHeaders]_vars

\* The stores deleteApp starts from: every endpoint belongs to a stored app
\* and every event to a stored endpoint.
Stores ==
    {c \in [apps : SUBSET AppIds,
            endpoints : [DbEndpointIds -> AppIds \cup {None}],
            events : [DbEventIds -> DbEndpointIds \cup {None}]] :
        /\ \A e \in DbEndpointIds : c.endpoints[e] # None => c.endpoints[e] \in c.apps
        /\ \A v \in DbEventIds : c.events[v] # None => c.endpoints[c.events[v]] # None}

InitApps ==
    /\ endpoint = [exists |-> TRUE, forwarding_enabled |-> TRUE,
                   forward_url |-> DestUrl]
    /\ PipelineInit
    /\ timer = TimerIdle
    /\ listing = NoListing
    /\ outbound = NoOutbound
    /\ \E c \in Stores : db = Idle(c, "none", None, c, <<>>, 0)

\* deleteApp calls, one at a time, on a store nothing else writes to.
NextApps ==
    \/ \E id \in AppIds : DeleteAppBegin(id)
    \/ FindOneAndDelete
    \/ CursorNext
    \/ FinalBatch
    \/ DeleteAppEndpoints
    \/ Commit
    \/ Abort

SpecApps == InitApps /\ [][NextApps]_vars

\* deleteApp calls interleaved with ingest requests to the endpoints.
NextCascade ==
    \/ \E id \in AppIds : DeleteAppBegin(id)
    \/ FindOneAndDelete
    \/ CursorNext
    \/ FinalBatch
    \/ DeleteAppEndpoints
    \/ Commit
    \/ Abort
    \/ \E e \in DbEndpointIds : IngestLookup(e)
    \/ IngestCreate

SpecCascade == InitApps /\ [][NextCascade]_vars

\* ------------------------------------------------------------------------
\* Vocabulary of the properties
\* ------------------------------------------------------------------------
\* The attempts of job j, as (job, index) pairs.
AttemptsOf(j) == 1..Len(log[j])

\* How many times a worker has taken job j for processing.
Processed(j) ==
    Len(log[j]) + (IF jobs[j].pc = "attempt" THEN 1 ELSE 0)

\* Outbound requests made and delivery records written for job j.
Forwards(j) == Cardinality({i \in AttemptsOf(j) : log[j][i].sent})
Records(j) == Cardinality({i \in AttemptsOf(j) : log[j][i].rec # None})

\* The job is scheduled for, or is in, a further attempt.
Continues(j) == jobs[j].state \in {"delayed", "waiting", "active"}

\* Attempt i of job j ended and the queue has another attempt for the job.
AttemptedAgain(j, i) == i < Len(log[j]) \/ Continues(j)

IsResponse(outcome, lo, hi) ==
    outcome.kind = "response" /\ outcome.code >= lo /\ outcome.code <= hi

\* Errors of request() that are timeouts, and those that are not.
TimeoutErrors == {MsgHeadersTimeout, MsgConnTimedOut}
IsTransportError(outcome) ==
    outcome.kind = "error" /\ outcome.message \notin TimeoutErrors

\* ------------------------------------------------------------------------
\* C1: a job is processed at most MAX_RETRIES times, so that at most
\* MAX_RETRIES outbound forwards and delivery records are produced for it.
\* ------------------------------------------------------------------------
C1_BoundedAttempts ==
    \A j \in JobIds :
        /\ Processed(j) <= MaxRetries
        /\ Forwards(j) <= MaxRetries
        /\ Records(j) <= MaxRetries

\* A job that used all its attempts and was moved to failed.
C1_Witness ==
    \E j \in JobIds :
        /\ jobs[j].state = "failed"
        /\ Processed(j) = MaxRetries
        /\ Forwards(j) = MaxRetries

\* ------------------------------------------------------------------------
\* C2: an attempt answered with a 4xx status writes one failed delivery and
\* is the last attempt of its job, also when attempts remain.
\* ------------------------------------------------------------------------
C2_ClientErrorStopsChain ==
    \A j \in JobIds : \A i \in AttemptsOf(j) :
        (log[j][i].ended /\ IsResponse(log[j][i].outcome, 400, 499)) =>
            /\ log[j][i].rec # None
            /\ deliveries[log[j][i].rec].status = "failed"
            /\ ~AttemptedAgain(j, i)

\* ------------------------------------------------------------------------
\* C3: every attempt that has ended has written its delivery record.
\* ------------------------------------------------------------------------
C3_RecordPerAttempt ==
    \A j \in JobIds : \A i \in AttemptsOf(j) :
        log[j][i].ended =>
            /\ log[j][i].rec \in DeliveryIds
            /\ \A k \in AttemptsOf(j) :
                   k # i => log[j][k].rec # log[j][i].rec

\* ------------------------------------------------------------------------
\* C4: a recorded delivery is "delivered" exactly when its attempt got a
\* 2xx response; a response >= 500 and a transport error are classified
\* failed, recorded as failed, and the job is attempted again while
\* attempts remain.
\* ------------------------------------------------------------------------
C4_Classification ==
    \A j \in JobIds : \A i \in AttemptsOf(j) :
        LET a == log[j][i] IN
        /\ a.rec # None =>
              /\ deliveries[a.rec].status = a.status
              /\ (deliveries[a.rec].status = "delivered"
                    <=> IsResponse(a.outcome, 200, 299))
        /\ (IsResponse(a.outcome, 500, 999) \/ IsTransportError(a.outcome)) =>
              /\ a.status = "failed"
              /\ (a.ended /\ i < MaxRetries) => AttemptedAgain(j, i)

\* A 5xx answer and a refused connection, both recorded as failed and
\* followed by another attempt of the job; and a delivered record.
C4_Witness ==
    /\ \E j \in JobIds : \E i \in AttemptsOf(j) :
          /\ IsResponse(log[j][i].outcome, 500, 999)
          /\ log[j][i].rec # None
          /\ deliveries[log[j][i].rec].status = "failed"
          /\ i < Len(log[j])
          /\ IsTransportError(log[j][i + 1].outcome)
          /\ log[j][i + 1].rec # None
    /\ \E d \in DeliveryIds : deliveries[d].status = "delivered"

\* ------------------------------------------------------------------------
\* C5: an attempt whose forward_url has the host:port of the public base URL
\* and a path of the hook-token shape makes no outbound request and records
\* a failed delivery with the self-forward message.
\* ------------------------------------------------------------------------
\* host:port of the URLs of the runs, the default port taken from the scheme.
HostPort(url) ==
    IF url = BaseUrl \/ url = SelfUrl THEN <<"localhost", 3030>>
    ELSE IF url = DestUrl THEN <<"dest.example", 80>>
    ELSE <<"", 0>>

\* The path of the URL matches ^/[A-Fa-f0-9]{24}$.
PathIsHookToken(url) == url = SelfUrl

IsSelfForward(url) ==
    HostPort(url) = HostPort(BaseUrl) /\ PathIsHookToken(url)

SelfForwardMessage == <<"forward URL points to a HookFreight webhook URL">>

C5_SelfForwardGuard ==
    \A j \in JobIds : \A i \in AttemptsOf(j) :
        IsSelfForward(log[j][i].url) =>
            /\ ~log[j][i].sent
            /\ log[j][i].status = "failed"
            /\ log[j][i].rec # None =>
                  deliveries[log[j][i].rec].error_message = SelfForwardMessage

\* ------------------------------------------------------------------------
\* C6: when every attempt of an ingest-created job is answered 500, the
\* job's attempts write exactly MAX_RETRIES delivery records, all failed
\* with response_status 500, and the job is then permanently failed.
\* ------------------------------------------------------------------------
AlwaysAnswered500(j) ==
    \A i \in AttemptsOf(j) : IsResponse(log[j][i].outcome, 500, 500)

C6_ServerErrorExhausts ==
    \A j \in IngestJobs :
        (AlwaysAnswered500(j) /\ Len(log[j]) > 0 /\ ~Continues(j)) =>
            /\ jobs[j].state = "failed"
            /\ Records(j) = MaxRetries
            /\ \A i \in AttemptsOf(j) :
                  /\ log[j][i].rec \in DeliveryIds
                  /\ deliveries[log[j][i].rec].status = "failed"
                  /\ deliveries[log[j][i].rec].response_status = 500

\* ------------------------------------------------------------------------
\* C7: an attempt of an ingest-created job that got a 2xx response writes
\* one delivered record with that response_status (without a parent when it
\* is the first attempt), completes the job, and is the job's last attempt.
\* ------------------------------------------------------------------------
C7_SuccessEndsJob ==
    \A j \in IngestJobs : \A i \in AttemptsOf(j) :
        (log[j][i].ended /\ IsResponse(log[j][i].outcome, 200, 299)) =>
            /\ log[j][i].rec \in DeliveryIds
            /\ deliveries[log[j][i].rec].status = "delivered"
            /\ deliveries[log[j][i].rec].response_status = log[j][i].outcome.code
            /\ i = 1 => deliveries[log[j][i].rec].parent_delivery_id = None
            /\ i = Len(log[j])
            /\ jobs[j].state = "completed"

\* ------------------------------------------------------------------------
\* C8: an attempt whose request ran into the endpoint's http_timeout is
\* classified and recorded as "timeout" without a response_status, and the
\* job is attempted again while attempts remain.
\* ------------------------------------------------------------------------
C8_TimeoutRecorded ==
    \A j \in JobIds : \A i \in AttemptsOf(j) :
        (log[j][i].outcome.kind = "error"
            /\ log[j][i].outcome.message = MsgHeadersTimeout) =>
            /\ log[j][i].status = "timeout"
            /\ log[j][i].rec # None =>
                  /\ deliveries[log[j][i].rec].status = "timeout"
                  /\ deliveries[log[j][i].rec].response_status = None
            /\ (log[j][i].ended /\ i < MaxRetries) => AttemptedAgain(j, i)

\* ------------------------------------------------------------------------
\* C9: following parent_delivery_id from any delivery ends (no cycle), and
\* the parent of a delivery is a delivery of the ledger with the same
\* event_id.
\* ------------------------------------------------------------------------
RECURSIVE ChainEnds(_, _)
\* Following the parent links from delivery d ends within n steps.
ChainEnds(d, n) ==
    IF d = None THEN TRUE
    ELSE IF n = 0 \/ d \notin DeliveryIds THEN FALSE
    ELSE ChainEnds(deliveries[d].parent_delivery_id, n - 1)

UniquePairs ==
    \A d1, d2 \in DeliveryIds :
        (/\ deliveries[d1].event_id = deliveries[d2].event_id
         /\ deliveries[d1].parent_delivery_id = deliveries[d2].parent_delivery_id)
            => d1 = d2

\* The step in which job j's recordDelivery returns or throws.
InsertStep(j) ==
    jobs[j].state = "active" /\ jobs[j].pc = "record" /\ jobs'[j].pc # "record"

DuplicateInsertFails ==
    \A j \in JobIds :
        (InsertStep(j) /\ DuplicateKey(deliveries, jobs[j].data.eventId,
                                       jobs[j].data.parentDeliveryId)) =>
            /\ deliveries' = deliveries
            /\ jobs'[j].state # "completed"
            /\ LastOf(log'[j]).rec = None

C10_UniquePairs == []UniquePairs /\ [][DuplicateInsertFails]_vars

\* Two workers are inserting the same pair at the same time.
ConcurrentDuplicate ==
    \E j1, j2 \in JobIds :
        /\ j1 # j2
        /\ jobs[j1].pc = "record" /\ jobs[j2].pc = "record"
        /\ jobs[j1].data = jobs[j2].data

\* One insert of a pair was refused while the attempt that inserted the
\* pair is still in progress.
C10_Witness ==
    \E j1, j2 \in JobIds :
        /\ j1 # j2
        /\ Len(log[j1]) > 0 /\ LastOf(log[j1]).ended /\ LastOf(log[j1]).rec = None
        /\ jobs[j2].pc = "update"
        /\ deliveries[jobs[j2].delivery].event_id = jobs[j1].data.eventId
        /\ deliveries[jobs[j2].delivery].parent_delivery_id
              = jobs[j1].data.parentDeliveryId

\* ------------------------------------------------------------------------
\* C11: submitting the delivery job of an event any number of times gives
\* one job, and so one automatic retry chain, for the event: the job
\* delivery-{event_id} is added to the queue at most once.
\* ------------------------------------------------------------------------
\* The entries of job id j's queue history with the given op.
QueueOps(j, op) == {i \in 1..Len(queueLog[j]) : queueLog[j][i].op = op}

C11_SingleJob ==
    \A e \in Events : Cardinality(QueueOps(DeliveryJobId(e), "added")) <= 1

\* C11 as it holds: a job id is added again only after retention removed
\* the job added before, and a submission that finds the event's job in the
\* queue (in any state) leaves the queue as it was.
AddedOnlyWhenAbsent ==
    \A j \in JobIds : \A i, k \in QueueOps(j, "added") :
        i < k => \E m \in QueueOps(j, "removed") : i < m /\ m < k

\* The step in which a handleEvent call for event e ends.
HandleStep(e) == e \in toHandle /\ e \notin toHandle'

ResubmissionIsNoOp ==
    \A e \in Events :
        (HandleStep(e) /\ jobs[DeliveryJobId(e)].state # "absent") =>
            jobs' = jobs

C11_IdempotentWhileRetained ==
    []AddedOnlyWhenAbsent /\ [][ResubmissionIsNoOp]_vars

\* handleEvent was called a second time for an event of a forwarding
\* endpoint while the event's job was in the queue, and the event still has
\* the one job, which has been attempted.
C11_Witness ==
    \E e \in Events :
        /\ endpoint.forwarding_enabled /\ endpoint.forward_url # NoUrl
        /\ resubmits > 0 /\ e \notin toHandle
        /\ Len(queueLog[DeliveryJobId(e)]) = 1
        /\ jobs[DeliveryJobId(e)].state = "completed"
        /\ Len(log[DeliveryJobId(e)]) = MaxRetries

\* ------------------------------------------------------------------------
\* C12: a manual retry of delivery D submits a new job with the data
\* {event_id of D, the event's endpoint, parent_delivery_id = D}, and the
\* attempt the worker makes for that job is recorded with parent D, also
\* when D already has a successor.
\* ------------------------------------------------------------------------
C12_ManualRetryRecorded ==
    \A j \in RetryJobs :
        queueLog[j] # <<>> =>
            LET D == queueLog[j][1].request IN
            /\ queueLog[j][1].op = "added"
            /\ queueLog[j][1].data =
                   [eventId |-> deliveries[D].event_id,
                    endpointId |-> TheEndpoint, parentDeliveryId |-> D]
            /\ (Len(log[j]) > 0 /\ log[j][1].ended) =>
                   /\ log[j][1].rec \in DeliveryIds
                   /\ deliveries[log[j][1].rec].parent_delivery_id = D

\* ------------------------------------------------------------------------
\* C13: at no time are two attempts for the same event in progress.
\* ------------------------------------------------------------------------
C13_SerializedPerEvent ==
    \A j1, j2 \in ActiveJobs :
        j1 # j2 => jobs[j1].data.eventId # jobs[j2].data.eventId

\* ------------------------------------------------------------------------
\* C14: the body of every captured event is the bytes the request carried
\* as its body, and its size_bytes is their number, whatever the method,
\* the content type, and also when the body is empty or absent.
\* ------------------------------------------------------------------------
\* The requests handled so far.
Handled == 1..Len(responses)

C14_ExactBytes ==
    \A i \in Handled :
        responses[i].event # None =>
            /\ eventDocs[responses[i].event].body = responses[i].req.body
            /\ eventDocs[responses[i].event].size_bytes
                  = Len(responses[i].req.body)

\* ------------------------------------------------------------------------
\* C15: every persisted event's request is answered 200 event_created,
\* while the enqueue is pending, after it succeeded and after it failed;
\* and the step in which the enqueue ends, failing or not, changes neither
\* the event store nor the answers given.
\* ------------------------------------------------------------------------
AnsweredCreated(e) ==
    \E i \in Handled :
        /\ responses[i].event = e
        /\ responses[i].status = 200
        /\ responses[i].message = "event_created"

EveryEventAnswered == \A e \in 1..created : AnsweredCreated(e)

EnqueueLeavesEvent ==
    \A e \in Events :
        HandleStep(e) => UNCHANGED <<events, eventDocs, responses>>

C16_OversizeRejected ==
    \A i \in Handled :
        Len(responses[i].req.body) > MaxBodyBytes =>
            /\ responses[i].event = None
            /\ (/\ responses[i].req.method \in {"GET", "POST", "PUT", "PATCH"}
                /\ responses[i].req.token = "known"
                /\ endpoint.exists) =>
                   /\ responses[i].status = 413
                   /\ responses[i].message = "payload_too_large"

\* ------------------------------------------------------------------------
\* C17: a request whose method is not one of GET, POST, PUT, PATCH is
\* answered 405 method_not_allowed and stores no event.
\* ------------------------------------------------------------------------
C17_MethodRejected ==
    \A i \in Handled :
        responses[i].req.method \notin {"GET", "POST", "PUT", "PATCH"} =>
            /\ responses[i].status = 405
            /\ responses[i].message = "method_not_allowed"
            /\ responses[i].event = None

\* ------------------------------------------------------------------------
\* C18: a request with an allowed method whose hook_token is no endpoint's
\* is answered 404 endpoint_not_found and stores no event.
\* ------------------------------------------------------------------------
C18_UnknownTokenRejected ==
    \A i \in Handled :
        (/\ responses[i].req.method \in {"GET", "POST", "PUT", "PATCH"}
         /\ responses[i].req.token = "unknown") =>
            /\ responses[i].status = 404
            /\ responses[i].message = "endpoint_not_found"
            /\ responses[i].event = None

\* ------------------------------------------------------------------------
\* C19: an attempt that finds its event or its endpoint gone records one
\* failed delivery with the message saying so, and the job completes: no
\* further attempt is made for it.
\* ------------------------------------------------------------------------
ReferentGone == {<<"Event not found">>, <<"Endpoint not found">>}

\* Attempt i of job j ended, recorded a failed delivery with its message,
\* and was the job's last.
RecordedAndCompleted(j, i) ==
    /\ log[j][i].rec \in DeliveryIds
    /\ deliveries[log[j][i].rec].status = "failed"
    /\ deliveries[log[j][i].rec].error_message = log[j][i].message
    /\ i = Len(log[j])
    /\ jobs[j].state = "completed"

C19_MissingReferentCompletes ==
    \A j \in JobIds : \A i \in AttemptsOf(j) :
        (log[j][i].ended /\ log[j][i].message \in ReferentGone) =>
            RecordedAndCompleted(j, i)

\* ------------------------------------------------------------------------
\* C20: an attempt that finds forwarding disabled or no forward_url sends
\* nothing, records one failed delivery with the message saying so, and the
\* job completes without further attempts.
\* ------------------------------------------------------------------------
NotConfigured == <<"Forwarding not enabled or URL not configured">>

C20_NotConfiguredCompletes ==
    \A j \in JobIds : \A i \in AttemptsOf(j) :
        (log[j][i].ended /\ log[j][i].message = NotConfigured) =>
            ~log[j][i].sent /\ RecordedAndCompleted(j, i)

\* ------------------------------------------------------------------------
\* C21: when the delivery record cannot be written, or the job data cannot
\* be updated, after the request went out, the job fails retryably: it is
\* attempted again while attempts remain (so the destination can get the
\* event again), and no job is completed without a delivery record of its
\* last attempt.
\* ------------------------------------------------------------------------
\* Attempt i of job j sent its request and ended without a record.
RecordLost(j, i) ==
    log[j][i].ended /\ log[j][i].sent /\ log[j][i].rec = None

\* The last attempt of job j recorded a failure and ended without the job
\* data pointing at the record.
UpdateLost(j) ==
    /\ Len(log[j]) > 0
    /\ LastOf(log[j]).ended
    /\ LastOf(log[j]).rec # None
    /\ LastOf(log[j]).status # "delivered"
    /\ jobs[j].data.parentDeliveryId # LastOf(log[j]).rec

C21_PersistenceFailureRetried ==
    \A j \in JobIds :
        /\ \A i \in AttemptsOf(j) :
               RecordLost(j, i) =>
                   /\ i < MaxRetries => AttemptedAgain(j, i)
                   /\ i = Len(log[j]) => jobs[j].state # "completed"
        /\ UpdateLost(j) =>
               /\ Len(log[j]) < MaxRetries => Continues(j)
               /\ jobs[j].state # "completed"
        /\ jobs[j].state = "completed" =>
               Len(log[j]) > 0 /\ LastOf(log[j]).rec \in DeliveryIds

\* A 2xx answer was not recorded because the write failed, and the
\* destination was sent the event a second time.
C21_Witness ==
    \E j \in JobIds :
        /\ Len(log[j]) >= 2
        /\ RecordLost(j, 1) /\ log[j][1].status = "delivered"
        /\ log[j][2].sent
        /\ log[j][2].url = log[j][1].url

\* ------------------------------------------------------------------------
\* C22: after a signal the worker is not closed, the queue is not closed
\* and the process does not exit while an ingest handler is in flight (its
\* event stored, its enqueue not yet attempted).
\* ------------------------------------------------------------------------
C22_ShutdownWaitsForIngest ==
    (\/ proc.deliveryWorker = "null"
     \/ proc.deliveryQueue \in {"closing", "null"}
     \/ proc.exited) => toHandle = {}

\* ------------------------------------------------------------------------
\* C23: on a signal the worker closes first, letting active jobs end their
\* attempt and leaving the other jobs in the queue; the queue closes only
\* after the worker has closed; the process exits only after both.
\* ------------------------------------------------------------------------
ShutdownOrder ==
    /\ proc.deliveryWorker = "null" => ActiveJobs = {}
    /\ proc.deliveryQueue \in {"closing", "null"} => proc.deliveryWorker = "null"
    /\ proc.exited => proc.deliveryWorker = "null" /\ proc.deliveryQueue = "null"

\* No job is started once the worker is closing, and a step of the shutdown
\* leaves the queue's jobs as they are.
QueuedJobsStay ==
    /\ proc.deliveryWorker # "running" =>
           \A j \in JobIds :
               jobs[j].state = "waiting" => jobs'[j].state = "waiting"
    /\ (proc'.deliveryWorker # proc.deliveryWorker
        \/ proc'.deliveryQueue # proc.deliveryQueue
        \/ proc'.exited # proc.exited) => jobs' = jobs

C23_ShutdownOrder == []ShutdownOrder /\ [][QueuedJobsStay]_vars

\* The process has exited; the job that was active when the signal came
\* has ended its attempt with a record, and a job that was waiting is still
\* waiting.
C23_Witness ==
    /\ proc.exited
    /\ proc.draining # {}
    /\ \A j \in proc.draining :
           LastOf(log[j]).ended /\ LastOf(log[j]).rec \in DeliveryIds
    /\ \E j \in JobIds : jobs[j].state = "waiting"

\* ------------------------------------------------------------------------
\* C24: there is never more than the one queue handle and the one worker
\* handle that initialization created; no enqueue of an ingest, manual
\* retry or queue-stats call creates a handle, and the handles change only
\* in steps of a shutdown.
\* ------------------------------------------------------------------------
SingleHandles == proc.queuesCreated = 1 /\ proc.workersCreated = 1

HandlesChangeInShutdown ==
    (proc'.deliveryWorker # proc.deliveryWorker
     \/ proc'.deliveryQueue # proc.deliveryQueue) =>
        /\ proc'.signals > 0
        /\ UNCHANGED <<jobs, toHandle, mgmt, retries>>

C24_SingletonHandles == []SingleHandles /\ [][HandlesChangeInShutdown]_vars

\* An enqueue, a manual retry and a queue-stats call have been handled, the
\* shutdown has cleared both handles and the process has exited, with no
\* handle created after initialization.
C24_Witness ==
    /\ proc.exited
    /\ proc.queuesCreated = 1
    /\ \E e \in Events : e \notin toHandle /\ jobs[DeliveryJobId(e)].state # "absent"
    /\ \E i \in 1..Len(mgmt) : mgmt[i].op = "retry"
    /\ \E i \in 1..Len(mgmt) : mgmt[i].op = "stats"

\* ------------------------------------------------------------------------
\* C25: for a stored event whose enqueue failed, so that it has no job and
\* no delivery, the system offers the operator an operation that gets the
\* event forwarded: a manual retry that submits a job for the event.
\* ------------------------------------------------------------------------
\* Event e is stored, its enqueue was rejected, and it has neither a job
\* nor a delivery.
Stranded(e) ==
    /\ e \in events
    /\ e \notin toHandle
    /\ QueueOps(DeliveryJobId(e), "rejected") # {}
    /\ \A j \in JobIds :
           jobs[j].state # "absent" => jobs[j].data.eventId # e
    /\ \A d \in DeliveryIds : deliveries[d].event_id # e

\* The deliveries whose manual retry, POST /deliveries/:deliveryId/retry,
\* submits a job for event e.
RetryTargets(e) == {d \in DeliveryIds : deliveries[d].event_id = e}

C25_Recoverable == \A e \in Events : Stranded(e) => RetryTargets(e) # {}

\* What holds instead: no step takes a stranded event out of that state
\* other than by deleting it.
StrandedStays ==
    \A e \in Events : Stranded(e) => (Stranded(e)' \/ e \notin events')

StrandedForever == [][StrandedStays]_vars

\* ------------------------------------------------------------------------
\* C26: after the n-th failed attempt of a job the next attempt does not
\* start earlier than 1000 * 2^(n-1) ms after that failure.
\* ------------------------------------------------------------------------
C26_ExponentialBackoff ==
    \A n \in 1..Len(timer.failedAt) :
        n + 1 <= Len(timer.startedAt) =>
            timer.startedAt[n + 1] >= timer.failedAt[n] + 1000 * Pow2(n - 1)

\* The second, third and fourth attempts each started at the earliest
\* moment: 1000, 2000 and 4000 ms after the failure before.
C26_Witness ==
    /\ Len(timer.startedAt) = 4
    /\ timer.startedAt[2] = timer.failedAt[1] + 1000
    /\ timer.startedAt[3] = timer.failedAt[2] + 2000
    /\ timer.startedAt[4] = timer.failedAt[3] + 4000

\* ------------------------------------------------------------------------
\* C27: events and deliveries are append-only: no step of the pipeline
\* (ingest, enqueue, worker attempt, manual retry) changes a field of a
\* stored event or delivery record or removes one; steps only insert.
\* ------------------------------------------------------------------------
StoredRecordsKept ==
    /\ Len(deliveries') >= Len(deliveries)
    /\ \A d \in DeliveryIds : deliveries'[d] = deliveries[d]
    /\ Len(eventDocs') >= Len(eventDocs)
    /\ \A i \in 1..Len(eventDocs) : eventDocs'[i] = eventDocs[i]

C27_AppendOnly == [][StoredRecordsKept]_vars

\* An event is stored and a later attempt of it, after a failed one, has
\* inserted a second delivery record of the same event.
C27_Witness ==
    /\ Len(eventDocs) >= 1
    /\ \E d1, d2 \in DeliveryIds :
          /\ d1 < d2
          /\ deliveries[d1].event_id = deliveries[d2].event_id
          /\ deliveries[d1].status # deliveries[d2].status

\* ------------------------------------------------------------------------
\* C28: app deletion is an atomic cascade: after deleteApp(id) either the
\* app, every endpoint of the app and every event of those endpoints are
\* removed (events before endpoints, in batches of at most the chunk size
\* that together cover every endpoint of the app) and nothing else is, or,
\* when a step failed or the app does not exist, the three collections are
\* as they were; while deleteApp runs the committed collections are as
\* they were.
\* ------------------------------------------------------------------------
Cascaded(before, id) ==
    Collections(before.apps \ {id},
                [e \in DbEndpointIds |->
                    IF before.endpoints[e] = id THEN None ELSE before.endpoints[e]],
                [v \in DbEventIds |->
                    IF /\ before.events[v] # None
                       /\ before.endpoints[before.events[v]] = id
                    THEN None ELSE before.events[v]])

EventsBeforeEndpoints(calls) ==
    /\ Len(calls) >= 1
    /\ calls[Len(calls)].op = "endpoints"
    /\ \A i \in 1..(Len(calls) - 1) : calls[i].op = "events"

BatchesCover(calls, ids) ==
    /\ \A i \in 1..(Len(calls) - 1) :
          /\ calls[i].ids # {}
          /\ Cardinality(calls[i].ids) <= DELETE_CHUNK_SIZE
    /\ UNION {calls[i].ids : i \in 1..(Len(calls) - 1)} = ids

C28_AtomicCascade ==
    /\ db.pc # "none" => db.committed = db.before
    /\ (db.pc = "none" /\ db.result = "deleted") =>
          /\ db.id \in db.before.apps
          /\ db.committed = Cascaded(db.before, db.id)
          /\ EventsBeforeEndpoints(db.calls)
          /\ BatchesCover(db.calls, EndpointsOf(db.before, db.id))
    /\ (db.pc = "none" /\ db.result \in {"null", "error"}) =>
          db.committed = db.before
    /\ (db.pc = "none" /\ db.result = "null") => db.id \notin db.before.apps

\* A deleteApp committed for an app with three endpoints, which takes a full
\* batch and a remainder, and removed events of them.
C28_Witness ==
    /\ db.pc = "none"
    /\ db.result = "deleted"
    /\ Len(db.calls) = 3
    /\ Cardinality(EndpointsOf(db.before, db.id)) = 3
    /\ \E v \in DbEventIds : db.before.events[v] # None /\ db.committed.events[v] = None

\* A deleteApp failed after its session had deleted events.
AbortedAfterWrites ==
    /\ db.pc = "none"
    /\ db.result = "error"
    /\ db.calls # <<>>
    /\ \E v \in DbEventIds :
          db.before.events[v] # None /\ db.before.endpoints[db.before.events[v]] = db.id

\* ------------------------------------------------------------------------
\* C29: listing events by endpoint returns only events of that endpoint, in
\* strictly descending (recieved_at, _id) order, so that with no inserts in
\* between consecutive pages neither repeat nor skip an event, even when
\* events share a recieved_at value.
\* ------------------------------------------------------------------------
\* The ids returned so far, page after page.
RECURSIVE Listed(_)
Listed(pages) ==
    IF pages = <<>> THEN <<>> ELSE pages[1].events \o Listed(Tail(pages))

StrictlyDescending(docs, ids) ==
    \A i \in 1..(Len(ids) - 1) :
        \/ docs[ids[i]].recieved_at > docs[ids[i + 1]].recieved_at
        \/ /\ docs[ids[i]].recieved_at = docs[ids[i + 1]].recieved_at
           /\ ids[i] > ids[i + 1]

C29_ListingOrder ==
    listing.pages # <<>> =>
        LET ids == Listed(listing.pages)
            listed == {ids[i] : i \in 1..Len(ids)}
            ofEndpoint == {v \in ListEventIds :
                              listing.docs[v].endpoint_id = listing.endpoint}
        IN /\ listed \subseteq ofEndpoint
           /\ StrictlyDescending(listing.docs, ids)
           /\ Cardinality(listed) = Len(ids)
           /\ \A v \in ofEndpoint \ listed :
                 /\ listing.pages[Len(listing.pages)].has_next
                 /\ ids # <<>>
                 /\ StrictlyDescending(listing.docs, <<ids[Len(ids)], v>>)

\* A listing returned in two pages or more all three events of an endpoint
\* that share one recieved_at value, while another endpoint has an event.
C29_Witness ==
    /\ Len(listing.pages) >= 2
    /\ ~listing.pages[Len(listing.pages)].has_next
    /\ Len(Listed(listing.pages)) = 3
    /\ \A v, w \in ListEventIds :
          (listing.docs[v].endpoint_id = listing.endpoint
           /\ listing.docs[w].endpoint_id = listing.endpoint)
          => listing.docs[v].recieved_at = listing.docs[w].recieved_at

\* ------------------------------------------------------------------------
\* C30: a manual retry request for a delivery id that does not exist, or
\* whose event no longer exists, is answered 404 not found, and no job is
\* enqueued and no delivery is written.
\* ------------------------------------------------------------------------
\* The retry requests that were not queued.
RefusedRetries == {i \in 1..Len(mgmt) : mgmt[i].op = "retry" /\ mgmt[i].status # 200}

C30_MissingIsNotFound == \A i \in RefusedRetries : mgmt[i].status = 404

\* A refused retry leaves the queue and the delivery records as they were.
RefusedWritesNothing ==
    (Len(mgmt') > Len(mgmt) /\ mgmt'[Len(mgmt')].status # 200)
        => (jobs' = jobs /\ deliveries' = deliveries)

NoWriteOnRefusal == [][RefusedWritesNothing]_vars

\* A retry of a stored delivery whose event was deleted was refused.
EventGoneRefused ==
    \E i \in RefusedRetries :
        /\ mgmt[i].arg \in DeliveryIds
        /\ deliveries[mgmt[i].arg].event_id \notin events

\* ------------------------------------------------------------------------
\* C31: every delivery's destination_url is a snapshot of the forward_url
\* at attempt time: it equals the URL the attempt's outbound request was
\* sent to, even when the endpoint is updated or deleted during the attempt.
\* ------------------------------------------------------------------------
C31_DestinationSnapshot ==
    \A j \in JobIds : \A i \in AttemptsOf(j) :
        (log[j][i].sent /\ log[j][i].rec # None)
            => deliveries[log[j][i].rec].destination_url = log[j][i].url

\* ------------------------------------------------------------------------
\* C32: chain linkage under automatic retries: for consecutive attempts k
\* and k+1 of one job, the delivery record of attempt k+1 has
\* parent_delivery_id equal to the id of the record attempt k wrote; the
\* first attempt's record carries the parent_delivery_id the job was
\* submitted with (none for the job of a captured event).
\* ------------------------------------------------------------------------
\* The parentDeliveryId in the data job j was submitted with.
SubmittedParent(j) ==
    queueLog[j][CHOOSE i \in QueueOps(j, "added") : TRUE].data.parentDeliveryId

C32_ChainLinkage ==
    \A j \in JobIds : \A i \in AttemptsOf(j) :
        log[j][i].rec # None =>
            IF i = 1
            THEN deliveries[log[j][i].rec].parent_delivery_id = SubmittedParent(j)
            ELSE log[j][i - 1].rec # None =>
                    deliveries[log[j][i].rec].parent_delivery_id = log[j][i - 1].rec

\* A manual retry job recorded two attempts: the first linked to the
\* delivery the retry was requested for, the second to the first.
C32_Witness ==
    \E j \in RetryJobs :
        /\ Len(log[j]) >= 2
        /\ log[j][1].rec # None
        /\ log[j][2].rec # None
        /\ SubmittedParent(j) # None

\* ------------------------------------------------------------------------
\* C33: ingest checks run in the order method (405), endpoint lookup (404),
\* body size (413): a request that fails several checks is answered with
\* the status of the earliest failing one.
\* ------------------------------------------------------------------------
\* The handled requests that fail more than one check.
FailsSeveral ==
    {i \in Handled :
        Cardinality({c \in {"method", "endpoint", "size"} :
            \/ c = "method" /\ responses[i].req.method \notin {"GET", "POST", "PUT", "PATCH"}
            \/ c = "endpoint" /\ responses[i].req.token = "unknown"
            \/ c = "size" /\ Len(responses[i].req.body) > MaxBodyBytes}) >= 2}

C33_CheckOrder ==
    \A i \in FailsSeveral :
        responses[i].status =
            IF responses[i].req.method \notin {"GET", "POST", "PUT", "PATCH"} THEN 405
            ELSE IF responses[i].req.token = "unknown" THEN 404
            ELSE 413

\* ------------------------------------------------------------------------
\* C34: event pagination: for any integer limit and offset the effective
\* limit is clamped to [1, MAX_LIST_LIMIT] and the offset to >= 0, the page
\* holds at most the effective limit items, and has_next is true if and
\* only if the endpoint has more than offset + limit events.
\* ------------------------------------------------------------------------
Clamped(n, lo, hi) == IF n < lo THEN lo ELSE IF n > hi THEN hi ELSE n

C34_Pagination ==
    (listing.pages # <<>> /\ listing.asked.limit.given /\ listing.asked.offset.given) =>
        LET page == listing.pages[1]
            count == Cardinality({v \in ListEventIds :
                                     listing.docs[v].endpoint_id = listing.endpoint})
        IN /\ page.limit = Clamped(listing.asked.limit.n, 1, MAX_LIST_LIMIT)
           /\ page.offset = IF listing.asked.offset.n < 0 THEN 0
                             ELSE listing.asked.offset.n
           /\ Len(page.events) <= page.limit
           /\ page.has_next <=> (count > page.offset + page.limit)

\* A page asked for with a limit above the maximum and a negative offset
\* was returned full, with has_next true.
C34_Witness ==
    /\ listing.pages # <<>>
    /\ listing.asked.limit.given
    /\ listing.asked.limit.n > MAX_LIST_LIMIT
    /\ listing.asked.offset.given
    /\ listing.asked.offset.n < 0
    /\ Len(listing.pages[1].events) = MAX_LIST_LIMIT
    /\ listing.pages[1].has_next

\* ------------------------------------------------------------------------
\* C35: the outbound headers of a forward are exactly the allow-listed
\* original headers that are present (the first value of several), the two
\* markers, and the endpoint's authentication header; the authentication
\* header is set last and overrides a copied header of the same name, so
\* the request never carries two values for one header name.
\* ------------------------------------------------------------------------
\* The allow-listed names with a value in the stored headers.
PresentSafe(o) == {k \in safeHeadersToForward \cap DOMAIN o : o[k].values[1] # ""}

HasAuthentication(a) == a.header_name # "" /\ a.header_value # ""

\* The names of the built headers are the expected ones.
HeadersExact ==
    outbound.built =>
        DOMAIN outbound.headers =
            PresentSafe(outbound.originalHeaders)
                \cup {"x-hookfreight-forwarded", "x-hookfreight-timestamp"}
                \cup (IF HasAuthentication(outbound.authentication)
                      THEN {outbound.authentication.header_name} ELSE {})

\* The authentication header has the endpoint's value, the other copied
\* headers the first stored value.
HeaderValuesRight ==
    outbound.built =>
        \A k \in DOMAIN outbound.headers :
            IF HasAuthentication(outbound.authentication)
               /\ k = outbound.authentication.header_name
            THEN outbound.headers[k] = outbound.authentication.header_value
            ELSE k \in safeHeadersToForward =>
                    outbound.headers[k] = outbound.originalHeaders[k].values[1]

\* No header name, as HTTP compares names, is sent with two values.
OneValuePerName ==
    outbound.built =>
        \A k1, k2 \in DOMAIN outbound.headers :
            LowerCase(k1) = LowerCase(k2) => k1 = k2

C35_ForwardHeaders == HeadersExact /\ HeaderValuesRight /\ OneValuePerName

\* ------------------------------------------------------------------------
\* C36: at ingest a delivery job is enqueued for a stored event only if its
\* endpoint exists, has forwarding_enabled true and a non-empty forward_url
\* at that moment; otherwise no job is submitted, and no delivery record is
\* ever written for the event, even if forwarding is enabled later.
\* ------------------------------------------------------------------------
Configured ==
    endpoint.exists /\ endpoint.forwarding_enabled /\ endpoint.forward_url # NoUrl

\* A handleEvent call that ends with a job in the queue that was not there
\* found the endpoint configured.
EnqueuedOnlyIfConfigured ==
    \A e \in Events :
        (HandleStep(e) /\ jobs'[DeliveryJobId(e)] # jobs[DeliveryJobId(e)])
            => Configured

\* The events handleEvent has finished with, without a job.
HandledWithoutJob ==
    {e \in events : /\ e \notin toHandle
                     /\ QueueOps(DeliveryJobId(e), "added") = {}}

NoJobNoDelivery ==
    \A e \in HandledWithoutJob :
        /\ jobs[DeliveryJobId(e)].state = "absent"
        /\ \A d \in DeliveryIds : deliveries[d].event_id # e

C36_EnqueueOnlyIfConfigured ==
    []NoJobNoDelivery /\ [][EnqueuedOnlyIfConfigured]_vars

\* An event was handled without a job and without handleEvent failing, and
\* the endpoint has since been given forwarding: the event still has no
\* job and no delivery.
C36_Witness ==
    \E e \in HandledWithoutJob :
        /\ QueueOps(DeliveryJobId(e), "rejected") = {}
        /\ Configured
        /\ updates >= 1

\* ------------------------------------------------------------------------
\* C37: persist-before-enqueue: every job in the delivery queue carries the
\* id of an event that was stored before the job was submitted; no job is
\* enqueued for a request whose event write failed.
\* ------------------------------------------------------------------------
\* The ids of the events stored so far.
StoredEvents == 1..Len(eventDocs)

JobsCarryStoredEvents ==
    /\ toHandle \subseteq StoredEvents
    /\ \A j \in JobIds :
          jobs[j].state # "absent" => jobs[j].data.eventId \in StoredEvents

\* A job that enters the queue in a step names an event stored before the
\* step.
StoredBeforeSubmitted ==
    \A j \in JobIds :
        (jobs[j].state = "absent" /\ jobs'[j].state # "absent")
            => jobs'[j].data.eventId \in StoredEvents

\* A request that stored no event leaves the queue and the pending
\* handleEvent calls as they were.
FailedWriteSubmitsNothing ==
    (Len(responses') > Len(responses) /\ responses'[Len(responses')].event = None)
        => (jobs' = jobs /\ toHandle' = toHandle /\ eventDocs' = eventDocs)

C37_PersistBeforeEnqueue ==
    /\ []JobsCarryStoredEvents
    /\ [][StoredBeforeSubmitted /\ FailedWriteSubmitsNothing]_vars

\* One request's event write was rejected, another request's event was
\* stored and has its job in the queue.
C37_Witness ==
    /\ \E i \in 1..Len(responses) :
          responses[i].status = 500 /\ responses[i].event = None
    /\ \E j \in JobIds : jobs[j].state # "absent"
    /\ Cardinality({j \in JobIds : jobs[j].state # "absent"}) = Len(eventDocs)

\* ------------------------------------------------------------------------
\* C38: no dangling events after an app deletion: under any interleaving of
\* deleteApp(app) with ingest requests to endpoints of the app, once
\* deleteApp has committed no stored event references an endpoint that it
\* deleted.
\* ------------------------------------------------------------------------
C38_NoDanglingEvents ==
    (db.pc = "none" /\ db.result = "deleted") =>
        \A v \in DbEventIds :
            db.committed.events[v] \notin EndpointsOf(db.before, db.id)

\* ------------------------------------------------------------------------
\* C39: job termination: with a running worker and fair scheduling, every
\* job submitted to the delivery queue, by ingest or by manual retry,
\* eventually reaches a terminal state, completed or permanently failed,
\* after at most MAX_RETRIES attempts; no job stays waiting, delayed or
\* active for ever.
\* ------------------------------------------------------------------------
InQueue(j) == jobs[j].state \in {"waiting", "delayed", "active"}

Terminal(j) == jobs[j].state \in {"completed", "failed"}

AttemptsWithinMax == \A j \in JobIds : jobs[j].attemptsMade <= MaxRetries

C39_JobTermination ==
    /\ []AttemptsWithinMax
    /\ \A j \in JobIds : InQueue(j) ~> Terminal(j)

\* The job of the event used all its attempts and failed, and a manual
\* retry job has ended as well.
C39_Witness ==
    /\ \E j \in IngestJobs :
          jobs[j].state = "failed" /\ jobs[j].attemptsMade = MaxRetries
    /\ \E j \in RetryJobs : Terminal(j) /\ jobs[j].attemptsMade = MaxRetries

\* ------------------------------------------------------------------------
\* C40: shutdown is safe under repeated signals: when a second SIGTERM or
\* SIGINT arrives during a shutdown, the process still does not exit before
\* the worker has finished closing (every active attempt has ended), and no
\* attempt is cut off between sending its request and writing its record.
\* ------------------------------------------------------------------------
\* Every attempt that sent its request has run to its end.
NoAttemptCutOff ==
    \A j \in JobIds : \A i \in AttemptsOf(j) : log[j][i].sent => log[j][i].ended

ExitAfterAttempts ==
    proc.exited =>
        /\ proc.deliveryWorker = "null"
        /\ ActiveJobs = {}
        /\ NoAttemptCutOff

\* After a repeated signal no step ends the process while the worker is
\* closing or an attempt is active, and the repeated signal itself leaves
\* the worker, the queue and the jobs as they are.
RepeatedSignalWaits ==
    /\ (proc.signals >= 2 /\ (proc.deliveryWorker = "closing" \/ ActiveJobs # {}))
          => ~proc'.exited
    /\ (proc.signals >= 1 /\ proc'.signals > proc.signals)
          => /\ proc'.deliveryWorker = proc.deliveryWorker
             /\ proc'.deliveryQueue = proc.deliveryQueue
             /\ ~proc'.exited
             /\ jobs' = jobs

C40_RepeatedSignalsSafe == []ExitAfterAttempts /\ [][RepeatedSignalWaits]_vars

\* A second signal has arrived during a shutdown whose worker is closing
\* with an attempt that has sent its request and not yet written its
\* record.
C40_Witness ==
    /\ proc.signals = 2
    /\ ~proc.exited
    /\ proc.deliveryWorker = "closing"
    /\ \E j \in JobIds :
          /\ jobs[j].state = "active"
          /\ jobs[j].pc = "record"
          /\ LastOf(log[j]).sent

\* The process has exited after two signals, and a job that was active at
\* the first signal has a recorded attempt.
ExitedAfterRepeatedSignal ==
    /\ proc.exited
    /\ proc.signals = 2
    /\ \E j \in proc.draining : \E i \in AttemptsOf(j) : log[j][i].rec # None

====
